---- MODULE Spec2Model ----
(***************************************************************************)
(* Model of the useFormState hook (src/src/use-form-state/index.ts) and of *)
(* the validation utilities (getFieldValidationOutcome, applyValidation,   *)
(* getOrderedValidationEntries, createInitialStateSnapshot).               *)
(*                                                                         *)
(* React is modelled as far as the hook depends on it:                     *)
(*  - setState(updater) queues the updater; the queue is applied in order  *)
(*    by the next render.  The queue is kept as its fold: nextState is the *)
(*    state the queued updates produce, queued counts the calls that put   *)
(*    updates there.  When nothing is queued React may run the first       *)
(*    updater                                                              *)
(*    eagerly, at the call; whether it does is not under the caller's      *)
(*    control and is a nondeterministic choice here.                       *)
(*  - the updaters of the hook write the field records of the state they   *)
(*    are given in place and return a shallow copy, so the field records   *)
(*    are shared by every state derived from one another.  state is what   *)
(*    the closure of the last render reads through those shared records.   *)
(*  - initialFormState is rebuilt by every render.  On the mount render it *)
(*    is the very object handed to useState, so the state's field records  *)
(*    are the records of initialFormState (aliased) until the next render. *)
(*  - setTimeout/clearTimeout with the handle kept in inputDebounceRef.    *)
(*    timer says whether that timeout is pending; the timeouts themselves, *)
(*    with their handles and the clock, are followed in SpecTimers.        *)
(***************************************************************************)
EXTENDS Naturals, Sequences, FiniteSets, TLC

VARIABLES
    state,              \* useState value of the last render, as its closure reads it
    nextState,          \* result of the queued state updates (the next render's state)
    queued,             \* number of calls whose state updates are queued for the next render
    initialFormState,   \* the closure's initialFormState object, as the queued updates leave it
    aliased,            \* TRUE iff the queued updates work on the records of initialFormState
    timer,              \* TRUE iff the timeout held by inputDebounceRef has not fired nor been cleared
    delayMs,            \* errorUpdateDelayInSeconds * 1000
    ret,                \* value returned by the last checkIfAllValid or extractStateValue call
    lastOp,             \* the operation performed by the last step
    thrown,             \* "queued" once a queued updater will throw, "raised" once the render ran it
    input,              \* arguments of the last call of a utility function made on its own
    output,             \* what that call returned
    timeouts,           \* the timeouts set and neither fired nor cleared: handle, time set, delay
    inputDebounceRef,   \* inputDebounceRef.current: the handle of the timeout set last
    now,                \* the clock, in milliseconds
    editedAt            \* time of the last call of set or update

\* The variables that only calls with an undeclared key and calls of the
\* utility functions change.
aux == <<thrown, input, output>>

\* The timeouts and the clock, which only the steps of SpecTimers change.
timing == <<timeouts, inputDebounceRef, now, editedAt>>

vars == <<state, nextState, queued, initialFormState, aliased, timer, delayMs, ret, lastOp, aux, timing>>

\* JavaScript undefined
undefined == [undefined |-> TRUE]

\* an explicit boolean option, as opposed to undefined
Bool(b) == [bool |-> b]

----------------------------------------------------------------------------
\* Field values: strings, as sequences of characters.
Values == { <<>>, <<"a">>, <<"a", "b">> }

\* The values each field is given: for password the empty string, one that
\* fails its rule and one that passes; for confirmPassword the empty string,
\* which fails its first rule, and one that passes or fails the second rule
\* with the password.
ValuesOf(key) == IF key = "password" THEN Values ELSE { <<>>, <<"a", "b">> }

\* At most this many calls queue state updates before a render applies them.
MaxQueued == 2

\* The configured delays, in milliseconds; 500 is the default (0.5 s).
Delays == {0, 500}

\* A form after the README example: a required password with one rule, its
\* confirmation with two rules, the second one reading the other field, and
\* a field with neither required nor validation.
formFieldParams ==
    [ password |->
        [ defaultValue |-> <<>>,
          required     |-> [message |-> "Please enter your password"],
          validation   |-> << [type      |-> "longerThanOneChar",
                               validator |-> "longerThanOneChar",
                               message   |-> "Password must be longer than 1 character"] >>,
          label        |-> "Password",
          helperText   |-> "Your Password" ],
      confirmPassword |->
        [ defaultValue |-> <<>>,
          validation   |-> << [type      |-> "longerThanOneChar",
                               validator |-> "longerThanOneChar",
                               message   |-> "Password must be longer than 1 character"],
                              [type      |-> "matchPassword",
                               validator |-> "matchPassword"] >>,
          helperText   |-> "Confirm Your Password" ] ]

Keys == DOMAIN formFieldParams

Has(rec, name) == name \in DOMAIN rec

\* The validator functions of the form above.
validator(id, value, formState) ==
    CASE id = "longerThanOneChar" -> Len(value) > 1
      [] id = "matchPassword"     -> value = formState["password"].value
      [] id = "matchConfirmation" -> value = formState["confirmPassword"].value
      [] id = "pushesOther"       -> TRUE
      [] id = "throwsUnlessMatch" -> TRUE

\* What a validator leaves in the state object it was given.  pushesOther is
\* a validator that is not pure: it runs formState.confirmPassword.value.push("b")
\* on a form whose values are arrays.  The other validators write nothing.
validatorEffect(id, value, formState) ==
    IF id = "pushesOther"
    THEN [formState EXCEPT !["confirmPassword"].value = Append(@, "b")]
    ELSE formState

\* checkIfRequiredValueFilled on a string: Boolean(value).
checkIfRequiredValueFilled(value) == Len(value) > 0

----------------------------------------------------------------------------
\* The validation rules of a field in the order Object.entries yields them.
ValidationEntries(key) ==
    IF Has(formFieldParams[key], "validation") THEN formFieldParams[key].validation ELSE <<>>

\* Array.prototype.every with a callback that records the error of every
\* rule that fails and goes on: the index of the last failing rule.
RECURSIVE LastFailing(_, _, _, _)
LastFailing(rules, i, value, formState) ==
    IF i > Len(rules) THEN 0
    ELSE LET later == LastFailing(rules, i + 1, value, formState)
         IN  IF later # 0 THEN later
             ELSE IF ~validator(rules[i].validator, value, formState) THEN i ELSE 0

\* Array.prototype.every with the callback of runValidation: the index of the
\* first rule whose validator fails, 0 when all pass.
RECURSIVE FirstFailing(_, _, _, _)
FirstFailing(rules, i, value, formState) ==
    IF i > Len(rules) THEN 0
    ELSE IF ~validator(rules[i].validator, value, formState) THEN i
    ELSE FirstFailing(rules, i + 1, value, formState)

\* message || ""
MessageOrEmpty(rule) == IF Has(rule, "message") THEN rule.message ELSE ""

\* formFieldParams[key].required?.message
RequiredMessage(key) ==
    IF Has(formFieldParams[key], "required") THEN formFieldParams[key].required.message ELSE undefined

\* Variant of OrderOf in which a rule without order has order 0 (order || 0).
OrderOf_Zero(validationParams, index) ==
    IF Has(validationParams[index], "order") THEN validationParams[index].order ELSE 0

\* getOrderedValidationEntries: the rules sorted by order, a rule without
\* order taking its (0-based) index, and by index among equal orders.
OrderOf(validationParams, index) ==
    IF Has(validationParams[index], "order") THEN validationParams[index].order ELSE index - 1

SortsBefore(validationParams, a, b) ==
    \/ OrderOf(validationParams, a) < OrderOf(validationParams, b)
    \/ OrderOf(validationParams, a) = OrderOf(validationParams, b) /\ a < b

\* Variant of getOrderedValidationEntries that keeps the order of declaration.
getOrderedValidationEntries_Declared(validationParams) == validationParams

getOrderedValidationEntries(validationParams) ==
    LET indices == DOMAIN validationParams
        place(index) == 1 + Cardinality({a \in indices : SortsBefore(validationParams, a, index)})
    IN  [p \in indices |-> validationParams[CHOOSE index \in indices : place(index) = p]]

\* Variant of the resolver that runs the rules before the required check.
getFieldValidationOutcomeFor_RulesFirst(key, params, formState) ==
    LET fieldParams == params[key]
        fieldState  == formState[key]
        rules       == IF Has(fieldParams, "validation")
                       THEN getOrderedValidationEntries(fieldParams.validation) ELSE <<>>
        failing     == FirstFailing(rules, 1, fieldState.value, formState)
    IN  IF failing # 0
        THEN [isValid |-> FALSE,
              error   |-> [type |-> rules[failing].type, message |-> MessageOrEmpty(rules[failing])]]
        ELSE IF fieldState.isRequired /\ ~checkIfRequiredValueFilled(fieldState.value)
        THEN [isValid |-> FALSE,
              error   |-> [type    |-> "required",
                           message |-> IF Has(fieldParams, "required")
                                       THEN fieldParams.required.message ELSE undefined]]
        ELSE [isValid |-> TRUE, error |-> undefined]

\* getFieldValidationOutcome(key, formFieldParams, state): required first,
\* then the rules in resolved order up to the first that fails, else valid.
getFieldValidationOutcomeFor(key, params, formState) ==
    LET fieldParams == params[key]
        fieldState  == formState[key]
        rules       == IF Has(fieldParams, "validation")
                       THEN getOrderedValidationEntries(fieldParams.validation) ELSE <<>>
        failing     == FirstFailing(rules, 1, fieldState.value, formState)
    IN  IF fieldState.isRequired /\ ~checkIfRequiredValueFilled(fieldState.value)
        THEN [isValid |-> FALSE,
              error   |-> [type    |-> "required",
                           message |-> IF Has(fieldParams, "required")
                                       THEN fieldParams.required.message ELSE undefined]]
        ELSE IF Has(fieldParams, "validation")
        THEN IF failing = 0
             THEN [isValid |-> TRUE, error |-> undefined]
             ELSE [isValid |-> FALSE,
                   error   |-> [type |-> rules[failing].type, message |-> MessageOrEmpty(rules[failing])]]
        ELSE [isValid |-> TRUE, error |-> undefined]

\* the resolver on the form of the hook
getFieldValidationOutcome(key, formState) ==
    getFieldValidationOutcomeFor(key, formFieldParams, formState)

----------------------------------------------------------------------------
\* The validation utilities, for any field parameters and for validators
\* that may write to the state object they are given.

\* The declared fields in the order for...in visits them.
KeyOrder == <<"password", "confirmPassword">>

\* deepCloneValue of an array of strings: value.map(deepCloneValue)
deepCloneValue(value) == [i \in DOMAIN value |-> value[i]]

\* cloneFormState: a new object per field with a clone of its value.  The
\* field objects and the state object are frozen, the cloned values are not.
cloneFormState(formState) ==
    [key \in DOMAIN formState |-> [formState[key] EXCEPT !.value = deepCloneValue(@)]]

\* every(...) of the resolver from the i-th rule on: the index of the first
\* rule that fails (0 when all pass) and the state object as the validators
\* that ran left it.
RECURSIVE everyRule(_, _, _, _)
everyRule(rules, i, key, formState) ==
    IF i > Len(rules) THEN [failing |-> 0, state |-> formState]
    ELSE LET value  == formState[key].value
             passed == validator(rules[i].validator, value, formState)
             after  == validatorEffect(rules[i].validator, value, formState)
         IN  IF ~passed THEN [failing |-> i, state |-> after]
             ELSE everyRule(rules, i + 1, key, after)

\* getFieldValidationOutcome, together with the state object as it is when
\* the call returns.
resolveField(key, params, formState) ==
    LET fieldParams == params[key]
        fieldState  == formState[key]
        rules       == IF Has(fieldParams, "validation")
                       THEN getOrderedValidationEntries(fieldParams.validation) ELSE <<>>
        run         == everyRule(rules, 1, key, formState)
    IN  IF fieldState.isRequired /\ ~checkIfRequiredValueFilled(fieldState.value)
        THEN [isValid |-> FALSE,
              error   |-> [type    |-> "required",
                           message |-> IF Has(fieldParams, "required")
                                       THEN fieldParams.required.message ELSE undefined],
              state   |-> formState]
        ELSE IF Has(fieldParams, "validation")
        THEN [isValid |-> run.failing = 0,
              error   |-> IF run.failing = 0 THEN undefined
                          ELSE [type    |-> rules[run.failing].type,
                                message |-> MessageOrEmpty(rules[run.failing])],
              state   |-> run.state]
        ELSE [isValid |-> TRUE, error |-> undefined, state |-> formState]

\* The loop of applyValidation from the i-th key on: the outcome of every
\* key visited and the snapshot as the validators left it.
RECURSIVE applyValidationFrom(_, _, _, _)
applyValidationFrom(i, stateSnapshot, outcomes, params) ==
    IF i > Len(KeyOrder) THEN [stateSnapshot |-> stateSnapshot, outcomes |-> outcomes]
    ELSE LET key     == KeyOrder[i]
             outcome == resolveField(key, params, stateSnapshot)
         IN  applyValidationFrom(i + 1, outcome.state,
                 (key :> [isValid |-> outcome.isValid, error |-> outcome.error]) @@ outcomes,
                 params)

\* Variant of applyValidation that replaces the error of a field only when
\* updateErrorType is explicitly true.
applyValidation_ExplicitOnly(currentState, params, updateErrorType) ==
    LET pass == applyValidationFrom(1, cloneFormState(currentState), <<>>, params)
        nextFieldState(key) ==
            LET prevFieldState == pass.stateSnapshot[key]
            IN  [prevFieldState EXCEPT
                    !.isValid = pass.outcomes[key].isValid,
                    !.error   = IF updateErrorType = Bool(TRUE) THEN pass.outcomes[key].error ELSE @]
    IN  [nextState |-> [key \in DOMAIN currentState |-> nextFieldState(key)],
         allValid  |-> \A key \in DOMAIN currentState : pass.outcomes[key].isValid]

\* applyValidation(currentState, formFieldParams, {updateErrorType}).  Each
\* field of nextState is a copy of the snapshot's field and shares its value
\* object, so it has the value the validators of the whole pass left there.
applyValidation(currentState, params, updateErrorType) ==
    LET pass == applyValidationFrom(1, cloneFormState(currentState), <<>>, params)
        nextFieldState(key) ==
            LET prevFieldState == pass.stateSnapshot[key]
                shouldUpdateErrorType ==
                    IF updateErrorType = undefined THEN prevFieldState.isInteracted
                    ELSE updateErrorType.bool
            IN  [prevFieldState EXCEPT
                    !.isValid = pass.outcomes[key].isValid,
                    !.error   = IF shouldUpdateErrorType THEN pass.outcomes[key].error ELSE @]
    IN  [nextState |-> [key \in DOMAIN currentState |-> nextFieldState(key)],
         allValid  |-> \A key \in DOMAIN currentState : pass.outcomes[key].isValid]

\* Whether the call validator(value, formState) throws instead of returning.
\* throwsUnlessMatch reads a property of an entry it looks up by the password
\* and throws a TypeError when value is not the password (when it returns, it
\* returns true); the other validators never throw.
validatorThrows(id, value, formState) ==
    id = "throwsUnlessMatch" /\ value # formState["password"].value

\* The every(...) of getFieldValidationOutcome from the i-th rule on: the
\* index of the rule whose validator throws, 0 when every(...) returns.
RECURSIVE throwingRule(_, _, _, _)
throwingRule(rules, i, key, formState) ==
    IF i > Len(rules) THEN 0
    ELSE LET value == formState[key].value
         IN  IF validatorThrows(rules[i].validator, value, formState) THEN i
             ELSE IF ~validator(rules[i].validator, value, formState) THEN 0
             ELSE throwingRule(rules, i + 1, key, validatorEffect(rules[i].validator, value, formState))

\* How a call ended: it returned value, or an exception left it.
Returned(value) == [threw |-> FALSE, value |-> value]

Threw == [threw |-> TRUE]

\* Whether a validator throws in getFieldValidationOutcome(key, params, formState):
\* the rules do not run on a required field that is not filled.
outcomeThrows(key, params, formState) ==
    /\ ~(formState[key].isRequired /\ ~checkIfRequiredValueFilled(formState[key].value))
    /\ Has(params[key], "validation")
    /\ throwingRule(getOrderedValidationEntries(params[key].validation), 1, key, formState) # 0

\* Variant of getFieldValidationOutcomeCall that catches the exception of a
\* validator and reports the field as invalid.
getFieldValidationOutcomeCall_Swallows(key, params, formState) ==
    IF outcomeThrows(key, params, formState)
    THEN Returned([isValid |-> FALSE, error |-> [type |-> "exception", message |-> ""]])
    ELSE Returned(getFieldValidationOutcomeFor(key, params, formState))

\* A call of getFieldValidationOutcome: nothing catches what a validator throws.
getFieldValidationOutcomeCall(key, params, formState) ==
    IF outcomeThrows(key, params, formState)
    THEN Threw
    ELSE Returned(getFieldValidationOutcomeFor(key, params, formState))

\* Whether the loop of applyValidation, from the i-th key on, is left by an
\* exception of getFieldValidationOutcome.
RECURSIVE applyValidationThrowsFrom(_, _, _)
applyValidationThrowsFrom(i, stateSnapshot, params) ==
    IF i > Len(KeyOrder) THEN FALSE
    ELSE IF getFieldValidationOutcomeCall(KeyOrder[i], params, stateSnapshot).threw THEN TRUE
    ELSE applyValidationThrowsFrom(i + 1, resolveField(KeyOrder[i], params, stateSnapshot).state, params)

\* A call of applyValidation: the exception leaves the loop and the function,
\* and no nextState is returned.
applyValidationCall(currentState, params, updateErrorType) ==
    IF applyValidationThrowsFrom(1, cloneFormState(currentState), params)
    THEN Threw
    ELSE Returned(applyValidation(currentState, params, updateErrorType))

\* The fields createInitialStateSnapshot assembles in its first loop.
assembleSnapshot(params) ==
    [key \in DOMAIN params |->
        [ value        |-> deepCloneValue(params[key].defaultValue),
          label        |-> IF Has(params[key], "label") THEN params[key].label ELSE "",
          helperText   |-> IF Has(params[key], "helperText") THEN params[key].helperText ELSE undefined,
          isValid      |-> FALSE,
          isInteracted |-> FALSE,
          isRequired   |-> Has(params[key], "required"),
          error        |-> undefined ]]

\* The second loop of createInitialStateSnapshot from the i-th key on; the
\* validators are given the snapshot under construction itself.
RECURSIVE validateSnapshotFrom(_, _, _)
validateSnapshotFrom(i, snapshot, params) ==
    IF i > Len(KeyOrder) THEN snapshot
    ELSE LET key     == KeyOrder[i]
             outcome == resolveField(key, params, snapshot)
         IN  validateSnapshotFrom(i + 1, [outcome.state EXCEPT ![key].isValid = outcome.isValid], params)

\* Variant of createInitialStateSnapshot that also stores the errors.
createInitialStateSnapshot_WithErrors(params) ==
    LET snapshot == assembleSnapshot(params)
    IN  [key \in DOMAIN params |->
            [snapshot[key] EXCEPT
                !.isValid = getFieldValidationOutcomeFor(key, params, snapshot).isValid,
                !.error   = getFieldValidationOutcomeFor(key, params, snapshot).error]]

createInitialStateSnapshot(params) == validateSnapshotFrom(1, assembleSnapshot(params), params)

----------------------------------------------------------------------------
\* The initial form state computed by the hook on every render.
createInitialState ==
    LET _state == [key \in Keys |->
                     [ value        |-> formFieldParams[key].defaultValue,
                       label        |-> IF Has(formFieldParams[key], "label")
                                        THEN formFieldParams[key].label ELSE "",
                       helperText   |-> IF Has(formFieldParams[key], "helperText")
                                        THEN formFieldParams[key].helperText ELSE undefined,
                       isValid      |-> FALSE,
                       isInteracted |-> FALSE,
                       isRequired   |-> Has(formFieldParams[key], "required"),
                       error        |-> undefined ]]
    IN  [key \in Keys |->
            [_state[key] EXCEPT !.isValid =
                IF _state[key].isRequired /\ ~checkIfRequiredValueFilled(_state[key].value)
                THEN FALSE
                ELSE IF Has(formFieldParams[key], "validation")
                THEN FirstFailing(ValidationEntries(key), 1, _state[key].value, _state) = 0
                ELSE TRUE]]

----------------------------------------------------------------------------
\* The state updaters of the hook.  Each writes the field records of _state in
\* place; the operator gives the contents of those records afterwards.

\* Variant of the updater of set that stores setInteracted as isInteracted.
SetUpdater_StoresFlag(_state, key, value, setInteracted) ==
    [_state EXCEPT ![key] = [@ EXCEPT !.value = value, !.isInteracted = setInteracted]]

\* updater of set
SetUpdater(_state, key, value, setInteracted) ==
    [_state EXCEPT ![key] = [@ EXCEPT !.value = value,
                                      !.isInteracted = IF setInteracted THEN TRUE ELSE @]]

\* Variant of the updater of update that marks every field as interacted.
UpdateUpdater_AllInteracted(_state, data, setInteracted) ==
    [key \in Keys |->
        [_state[key] EXCEPT !.value = IF key \in DOMAIN data THEN data[key] ELSE @,
                            !.isInteracted = IF setInteracted THEN TRUE ELSE @]]

\* updater of update; data is a function from some of the keys to values
UpdateUpdater(_state, data, setInteracted) ==
    [key \in Keys |->
        IF key \in DOMAIN data
        THEN [_state[key] EXCEPT !.value = data[key],
                                 !.isInteracted = IF setInteracted THEN TRUE ELSE @]
        ELSE _state[key]]

\* Variant of the updater of runValidation that only recomputes isValid and
\* keeps every error as it was.
RunValidationUpdater_KeepErrors(_state, updateErrorType) ==
    [key \in Keys |->
        [_state[key] EXCEPT !.isValid =
            IF _state[key].isRequired /\ ~checkIfRequiredValueFilled(_state[key].value)
            THEN FALSE
            ELSE FirstFailing(ValidationEntries(key), 1, _state[key].value, _state) = 0]]

\* Variant of the updater of runValidation that returns an object with the
\* interacted fields only.
RunValidationUpdater_InteractedOnly(_state, updateErrorType) ==
    [key \in {k \in Keys : _state[k].isInteracted} |->
        RunValidationUpdater_KeepErrors(_state, updateErrorType)[key]]

\* Variant of the updater of runValidation that reports an empty value as
\* "required" whether or not the field is required.
RunValidationUpdater_RequiredForAll(_state, updateErrorType) ==
    [key \in Keys |->
        LET shouldUpdateErrorType ==
                IF updateErrorType = undefined THEN _state[key].isInteracted ELSE updateErrorType.bool
            rules   == ValidationEntries(key)
            failing == FirstFailing(rules, 1, _state[key].value, _state)
        IN  IF ~checkIfRequiredValueFilled(_state[key].value)
            THEN [_state[key] EXCEPT
                    !.isValid = FALSE,
                    !.error   = IF shouldUpdateErrorType
                                THEN [type |-> "required", message |-> RequiredMessage(key)]
                                ELSE @]
            ELSE IF Has(formFieldParams[key], "validation")
            THEN [_state[key] EXCEPT
                    !.isValid = (failing = 0),
                    !.error   = IF shouldUpdateErrorType
                                THEN IF failing = 0 THEN undefined
                                     ELSE [type    |-> rules[failing].type,
                                           message |-> MessageOrEmpty(rules[failing])]
                                ELSE @]
            ELSE [_state[key] EXCEPT
                    !.isValid = TRUE,
                    !.error   = IF shouldUpdateErrorType THEN undefined ELSE @]]

\* updater of runValidation; updateErrorType is TRUE, FALSE or undefined.
\* The loop writes isValid and error of one field per iteration and the
\* validators read values only, so the iterations are independent.
RunValidationUpdater(_state, updateErrorType) ==
    [key \in Keys |->
        LET shouldUpdateErrorType ==
                IF updateErrorType = undefined THEN _state[key].isInteracted ELSE updateErrorType.bool
            rules   == ValidationEntries(key)
            failing == FirstFailing(rules, 1, _state[key].value, _state)
        IN  IF _state[key].isRequired /\ ~checkIfRequiredValueFilled(_state[key].value)
            THEN [_state[key] EXCEPT
                    !.isValid = FALSE,
                    !.error   = IF shouldUpdateErrorType
                                THEN [type |-> "required", message |-> RequiredMessage(key)]
                                ELSE @]
            ELSE IF Has(formFieldParams[key], "validation")
            THEN [_state[key] EXCEPT
                    !.isValid = (failing = 0),
                    !.error   = IF shouldUpdateErrorType
                                THEN IF failing = 0 THEN undefined
                                     ELSE [type    |-> rules[failing].type,
                                           message |-> MessageOrEmpty(rules[failing])]
                                ELSE @]
            ELSE [_state[key] EXCEPT
                    !.isValid = TRUE,
                    !.error   = IF shouldUpdateErrorType THEN undefined ELSE @]]

\* Data objects passed to update: values for some of the fields.
PartialData ==
    UNION { {data \in [D -> Values] : \A key \in D : data[key] \in ValuesOf(key)} : D \in SUBSET Keys }

\* Options objects passed to checkIfAllValid: each option left out (its
\* default applies) or set to false.
CheckOptions == [updateErrorType : {undefined, Bool(FALSE)}, commitState : {undefined, Bool(FALSE)}]

\* The record of the last step: its name and, for checkIfAllValid, its options.
Op(name) == [name |-> name, updateErrorType |-> undefined, commitState |-> undefined]

\* React may compute the first queued update eagerly, at the call.
pending == queued > 0

EagerChoices == IF pending THEN {FALSE} ELSE BOOLEAN

----------------------------------------------------------------------------
Init ==
    /\ state = createInitialState
    /\ nextState = createInitialState
    /\ queued = 0
    /\ initialFormState = createInitialState
    /\ aliased = TRUE
    /\ timer = FALSE
    /\ delayMs \in Delays
    /\ ret = undefined
    /\ lastOp = Op("init")
    /\ thrown = "none"
    /\ input = undefined
    /\ output = undefined
    /\ timeouts = {}
    /\ inputDebounceRef = undefined
    /\ now = 0
    /\ editedAt = undefined

\* Variant of debouncedErrorUpdate without the immediate validation pass.
debouncedErrorUpdate_TimerOnly(_state) == _state

\* Variant of debouncedErrorUpdate whose immediate pass leaves updateErrorType unset.
debouncedErrorUpdate_Unset(_state) == RunValidationUpdater(_state, undefined)

\* Variant of debouncedErrorUpdate whose immediate pass never updates errors.
debouncedErrorUpdate_NeverErrors(_state) == RunValidationUpdater(_state, Bool(FALSE))

\* Variant of debouncedErrorUpdate whose immediate pass always updates errors.
debouncedErrorUpdate_ErrorsAtOnce(_state) == RunValidationUpdater(_state, Bool(TRUE))

\* debouncedErrorUpdate after the updater has been queued: the immediate
\* validation pass, clearTimeout, and the new timeout when the delay is positive.
debouncedErrorUpdate(_state) ==
    RunValidationUpdater(_state, Bool(~(delayMs > 0)))

\* set(key, value, setInteracted)
Set(key, value, setInteracted, eager) ==
    LET written == SetUpdater(nextState, key, value, setInteracted)
        checked == debouncedErrorUpdate(written)
    IN  /\ queued < MaxQueued
        /\ state' = IF eager THEN written ELSE state
        /\ nextState' = checked
        /\ initialFormState' = IF aliased THEN checked ELSE initialFormState
        /\ queued' = queued + 1
        /\ timer' = (delayMs > 0)
        /\ lastOp' = Op("set")
        /\ ret' = undefined
        /\ UNCHANGED <<aliased, delayMs, aux>>

\* Variant of update that queues one updater per listed key, so that an
\* eager run applies the first of them only.
Update_KeyByKey(data, setInteracted, eager) ==
    LET written == UpdateUpdater(nextState, data, setInteracted)
        checked == debouncedErrorUpdate(written)
        first   == IF DOMAIN data = {} THEN {} ELSE {CHOOSE key \in DOMAIN data : TRUE}
    IN  /\ queued < MaxQueued
        /\ state' = IF eager
                    THEN UpdateUpdater(nextState, [key \in first |-> data[key]], setInteracted)
                    ELSE state
        /\ nextState' = checked
        /\ initialFormState' = IF aliased THEN checked ELSE initialFormState
        /\ queued' = queued + 1
        /\ timer' = (delayMs > 0)
        /\ lastOp' = Op("update")
        /\ ret' = undefined
        /\ UNCHANGED <<aliased, delayMs, aux>>

\* update(data, setInteracted)
Update(data, setInteracted, eager) ==
    LET written == UpdateUpdater(nextState, data, setInteracted)
        checked == debouncedErrorUpdate(written)
    IN  /\ queued < MaxQueued
        /\ state' = IF eager THEN written ELSE state
        /\ nextState' = checked
        /\ initialFormState' = IF aliased THEN checked ELSE initialFormState
        /\ queued' = queued + 1
        /\ timer' = (delayMs > 0)
        /\ lastOp' = Op("update")
        /\ ret' = undefined
        /\ UNCHANGED <<aliased, delayMs, aux>>

\* Variant of the timeout callback that runs no validation pass.
TimerFire_NoPass(eager) ==
    /\ timer
    /\ queued < MaxQueued
    /\ timer' = FALSE
    /\ queued' = queued + 1
    /\ lastOp' = Op("timer")
    /\ ret' = undefined
    /\ UNCHANGED <<state, nextState, initialFormState, aliased, delayMs, aux>>

\* Variant of the timeout callback whose pass updates the error of every field.
TimerFire_AllErrors(eager) ==
    /\ timer
    /\ queued < MaxQueued
    /\ timer' = FALSE
    /\ state' = IF eager THEN RunValidationUpdater(state, Bool(TRUE)) ELSE state
    /\ nextState' = RunValidationUpdater(nextState, Bool(TRUE))
    /\ initialFormState' = IF aliased THEN nextState' ELSE initialFormState
    /\ queued' = queued + 1
    /\ lastOp' = Op("timer")
    /\ ret' = undefined
    /\ UNCHANGED <<aliased, delayMs, aux>>

\* the timeout callback: runValidation()
TimerFire(eager) ==
    /\ timer
    /\ queued < MaxQueued
    /\ timer' = FALSE
    /\ state' = IF eager THEN RunValidationUpdater(state, undefined) ELSE state
    /\ nextState' = RunValidationUpdater(nextState, undefined)
    /\ initialFormState' = IF aliased THEN nextState' ELSE initialFormState
    /\ queued' = queued + 1
    /\ lastOp' = Op("timer")
    /\ ret' = undefined
    /\ UNCHANGED <<aliased, delayMs, aux>>

\* Variant of checkIfAllValid that runs the validation pass whatever
\* updateErrorType says.
checkIfAllValid_AlwaysValidates(options, eager) ==
    /\ queued < MaxQueued
    /\ state' = IF eager THEN RunValidationUpdater(state, Bool(TRUE)) ELSE state
    /\ nextState' = RunValidationUpdater(nextState, Bool(TRUE))
    /\ initialFormState' = IF aliased THEN nextState' ELSE initialFormState
    /\ queued' = queued + 1
    /\ ret' = Bool(\A key \in Keys : state'[key].isValid)
    /\ lastOp' = [name |-> "checkIfAllValid",
                  updateErrorType |-> options.updateErrorType,
                  commitState |-> options.commitState]
    /\ UNCHANGED <<aliased, timer, delayMs, aux>>

\* Variant of checkIfAllValid that also clears the timeout.
checkIfAllValid_ClearsTimeout(options, eager) ==
    LET updateErrorType ==
            IF options.updateErrorType = undefined THEN TRUE ELSE options.updateErrorType.bool
    IN  /\ IF updateErrorType
           THEN /\ queued < MaxQueued
                /\ state' = IF eager THEN RunValidationUpdater(state, Bool(TRUE)) ELSE state
                /\ nextState' = RunValidationUpdater(nextState, Bool(TRUE))
                /\ initialFormState' = IF aliased THEN nextState' ELSE initialFormState
                /\ queued' = queued + 1
           ELSE /\ ~eager
                /\ UNCHANGED <<state, nextState, initialFormState, queued>>
        /\ timer' = FALSE
        /\ ret' = Bool(\A key \in Keys : state'[key].isValid)
        /\ lastOp' = [name |-> "checkIfAllValid",
                      updateErrorType |-> options.updateErrorType,
                      commitState |-> options.commitState]
        /\ UNCHANGED <<aliased, delayMs, aux>>

\* checkIfAllValid(options): updateErrorType defaults to TRUE, any other
\* option (commitState) is not read.  The result is read from the state of
\* the closure.
checkIfAllValid(options, eager) ==
    LET updateErrorType ==
            IF options.updateErrorType = undefined THEN TRUE ELSE options.updateErrorType.bool
    IN  /\ IF updateErrorType
           THEN /\ queued < MaxQueued
                /\ state' = IF eager THEN RunValidationUpdater(state, Bool(TRUE)) ELSE state
                /\ nextState' = RunValidationUpdater(nextState, Bool(TRUE))
                /\ initialFormState' = IF aliased THEN nextState' ELSE initialFormState
                /\ queued' = queued + 1
           ELSE /\ ~eager
                /\ UNCHANGED <<state, nextState, initialFormState, queued>>
        /\ ret' = Bool(\A key \in Keys : state'[key].isValid)
        /\ lastOp' = [name |-> "checkIfAllValid",
                      updateErrorType |-> options.updateErrorType,
                      commitState |-> options.commitState]
        /\ UNCHANGED <<aliased, timer, delayMs, aux>>

\* reset(): setState(initialFormState); clearTimeout
reset ==
    /\ queued < MaxQueued
    /\ nextState' = initialFormState
    /\ aliased' = TRUE
    /\ queued' = queued + 1
    /\ timer' = FALSE
    /\ lastOp' = Op("reset")
    /\ ret' = undefined
    /\ UNCHANGED <<state, initialFormState, delayMs, aux>>

\* A render of the component: the queued updates become the state, and the
\* new closure has a fresh initialFormState.
Render ==
    /\ state' = nextState
    /\ nextState' = nextState
    /\ queued' = 0
    /\ initialFormState' = createInitialState
    /\ aliased' = FALSE
    /\ lastOp' = Op("render")
    /\ ret' = undefined
    /\ UNCHANGED <<timer, delayMs, aux>>

\* A render in which reinitializeDependencies changed, followed by the
\* effect: setState(initialFormState) with the initialFormState of that render.
Reinitialize ==
    /\ state' = nextState
    /\ nextState' = createInitialState
    /\ initialFormState' = createInitialState
    /\ aliased' = TRUE
    /\ queued' = 1
    /\ lastOp' = Op("reinitialize")
    /\ ret' = undefined
    /\ UNCHANGED <<timer, delayMs, aux>>

\* The steps of the hook itself leave the timeouts to timer: they say
\* nothing of the handles and the clock, which stay as they are here.
Next ==
    \/ \E key \in Keys, setInteracted \in BOOLEAN, eager \in EagerChoices :
          \E value \in ValuesOf(key) : Set(key, value, setInteracted, eager) /\ UNCHANGED timing
    \/ \E data \in PartialData, setInteracted \in BOOLEAN, eager \in EagerChoices :
          Update(data, setInteracted, eager) /\ UNCHANGED timing
    \/ \E eager \in EagerChoices : TimerFire(eager) /\ UNCHANGED timing
    \/ \E options \in CheckOptions, eager \in EagerChoices :
          checkIfAllValid(options, eager) /\ UNCHANGED timing
    \/ reset /\ UNCHANGED timing
    \/ Render /\ UNCHANGED timing
    \/ Reinitialize /\ UNCHANGED timing

Spec == Init /\ [][Next]_vars

\* The hook used without forcing errors: checkIfAllValid is only called with
\* updateErrorType = false.
NextNoForce ==
    \/ \E key \in Keys, setInteracted \in BOOLEAN, eager \in EagerChoices :
          \E value \in ValuesOf(key) : Set(key, value, setInteracted, eager) /\ UNCHANGED timing
    \/ \E data \in PartialData, setInteracted \in BOOLEAN, eager \in EagerChoices :
          Update(data, setInteracted, eager) /\ UNCHANGED timing
    \/ \E eager \in EagerChoices : TimerFire(eager) /\ UNCHANGED timing
    \/ \E options \in CheckOptions, eager \in EagerChoices :
          /\ options.updateErrorType = Bool(FALSE)
          /\ checkIfAllValid(options, eager)
          /\ UNCHANGED timing
    \/ reset /\ UNCHANGED timing
    \/ Render /\ UNCHANGED timing
    \/ Reinitialize /\ UNCHANGED timing

SpecNoForce == Init /\ [][NextNoForce]_vars

\* The hook with its scheduling: the event loop runs the callback of a
\* pending timeout, however many updates are queued (the bound on the queue
\* is what disables TimerFire now and then), and React renders a component
\* whose state updates are queued.
\* update is called with both fields, checkIfAllValid without commitState.
NextFair ==
    \/ \E key \in Keys, setInteracted \in BOOLEAN, eager \in EagerChoices :
          \E value \in ValuesOf(key) : Set(key, value, setInteracted, eager) /\ UNCHANGED timing
    \/ \E data \in PartialData, setInteracted \in BOOLEAN, eager \in EagerChoices :
          DOMAIN data = Keys /\ Update(data, setInteracted, eager) /\ UNCHANGED timing
    \/ \E eager \in EagerChoices : TimerFire(eager) /\ UNCHANGED timing
    \/ \E options \in CheckOptions, eager \in EagerChoices :
          /\ options.commitState = undefined
          /\ checkIfAllValid(options, eager)
          /\ UNCHANGED timing
    \/ reset /\ UNCHANGED timing
    \/ Render /\ UNCHANGED timing
    \/ Reinitialize /\ UNCHANGED timing

SpecFair ==
    /\ Init
    /\ [][NextFair]_vars
    /\ SF_vars(\E eager \in BOOLEAN : TimerFire(eager) /\ UNCHANGED timing)
    /\ WF_vars(Render /\ UNCHANGED timing)

----------------------------------------------------------------------------
\* The hook with its timeouts and a clock.

\* The clock advances by TickMs, up to MaxNow.
TickMs == 250

MaxNow == 750

\* At most this many timeouts are set.
MaxTimeouts == 2

\* a timeout handle, as setTimeout returns it
Handle(n) == [handle |-> n]

\* The handle of the next timeout: handles are not reused, and the hook's
\* timeouts are the only ones.
NewHandle ==
    IF inputDebounceRef = undefined THEN Handle(1) ELSE Handle(inputDebounceRef.handle + 1)

\* clearTimeout(handle): no timeout with that handle is pending any more.
clearTimeout(handle) == {timeout \in timeouts : timeout.handle # handle}

\* Variant of Debounce that sets the new timeout without clearing the one of
\* inputDebounceRef.
Debounce_NoClear ==
    /\ delayMs > 0 => NewHandle.handle <= MaxTimeouts
    /\ timeouts' = IF delayMs > 0
                   THEN timeouts \cup {[handle |-> NewHandle, setAt |-> now, delay |-> delayMs]}
                   ELSE timeouts
    /\ inputDebounceRef' = IF delayMs > 0 THEN NewHandle ELSE inputDebounceRef

\* The timeouts in debouncedErrorUpdate: clearTimeout(inputDebounceRef.current)
\* and, when the delay is positive, a new timeout whose handle is stored in
\* inputDebounceRef.current.
Debounce ==
    /\ delayMs > 0 => NewHandle.handle <= MaxTimeouts
    /\ timeouts' = IF delayMs > 0
                   THEN clearTimeout(inputDebounceRef)
                            \cup {[handle |-> NewHandle, setAt |-> now, delay |-> delayMs]}
                   ELSE clearTimeout(inputDebounceRef)
    /\ inputDebounceRef' = IF delayMs > 0 THEN NewHandle ELSE inputDebounceRef

\* set and update, called at the time of the clock.
SetAt(key, value, setInteracted, eager) ==
    /\ Set(key, value, setInteracted, eager)
    /\ Debounce
    /\ editedAt' = now
    /\ UNCHANGED now

UpdateAt(data, setInteracted, eager) ==
    /\ Update(data, setInteracted, eager)
    /\ Debounce
    /\ editedAt' = now
    /\ UNCHANGED now

\* The callback of a pending timeout runs, not before its delay has elapsed.
TimeoutFires(timeout, eager) ==
    /\ timeout \in timeouts
    /\ now >= timeout.setAt + timeout.delay
    /\ TimerFire(eager)
    /\ timeouts' = timeouts \ {timeout}
    /\ UNCHANGED <<inputDebounceRef, now, editedAt>>

\* reset(), whose clearTimeout clears the timeout of inputDebounceRef.
ResetAt ==
    /\ reset
    /\ timeouts' = clearTimeout(inputDebounceRef)
    /\ UNCHANGED <<inputDebounceRef, now, editedAt>>

\* Time passes.
Tick ==
    /\ now < MaxNow
    /\ now' = now + TickMs
    /\ lastOp' = Op("tick")
    /\ UNCHANGED <<state, nextState, queued, initialFormState, aliased, timer, delayMs, ret, aux,
                   timeouts, inputDebounceRef, editedAt>>

NextTimers ==
    \/ \E key \in Keys, setInteracted \in BOOLEAN, eager \in EagerChoices :
          \E value \in ValuesOf(key) : SetAt(key, value, setInteracted, eager)
    \/ \E data \in PartialData, setInteracted \in BOOLEAN, eager \in EagerChoices :
          DOMAIN data = Keys /\ UpdateAt(data, setInteracted, eager)
    \/ \E timeout \in timeouts, eager \in EagerChoices : TimeoutFires(timeout, eager)
    \/ \E options \in CheckOptions, eager \in EagerChoices :
          /\ options.commitState = undefined
          /\ checkIfAllValid(options, eager)
          /\ UNCHANGED timing
    \/ ResetAt
    \/ Render /\ UNCHANGED timing
    \/ Reinitialize /\ UNCHANGED timing
    \/ Tick

SpecTimers == Init /\ [][NextTimers]_vars

----------------------------------------------------------------------------
\* The hook with extractStateValue.

\* extractStateValue({format}): the values of the closure's state, as an
\* object or as the entries appended to a FormData (strings are appended as
\* they are).
ExtractStateValue(format) ==
    /\ ret' = [format |-> format,
               data   |-> IF format = "formdata"
                          THEN [i \in DOMAIN KeyOrder |-> <<KeyOrder[i], state[KeyOrder[i]].value>>]
                          ELSE [key \in DOMAIN state |-> state[key].value]]
    /\ lastOp' = Op("extractStateValue")
    /\ UNCHANGED <<state, nextState, queued, initialFormState, aliased, timer, delayMs, aux, timing>>

NextExtract ==
    \/ Next
    \/ \E format \in {"object", "formdata"} : ExtractStateValue(format)

SpecExtract == Init /\ [][NextExtract]_vars

----------------------------------------------------------------------------
\* Calls with a key that is not a declared field.

UndeclaredKeys == {"nickname"}

\* set(key, value, setInteracted) with an undeclared key.  The call queues
\* the updater and runs debouncedErrorUpdate as for any key.  The updater
\* evaluates _state[key].value = value with _state[key] undefined, which
\* throws a TypeError before anything is written.  React swallows the error
\* of an eager run and runs the updater again in the next render.
SetUndeclared(key, value, setInteracted) ==
    /\ key \notin Keys
    /\ thrown = "none"
    /\ queued < MaxQueued
    /\ thrown' = "queued"
    /\ queued' = queued + 1
    /\ timer' = (delayMs > 0)
    /\ lastOp' = Op("setUndeclared")
    /\ ret' = undefined
    /\ UNCHANGED <<state, nextState, initialFormState, aliased, delayMs, input, output, timing>>

\* update(data, setInteracted) where data lists an undeclared key; before is
\* the part of data listed before that key.  forEach writes the records of
\* the fields of before in place and then throws the TypeError.
UpdateUndeclared(before, setInteracted, eager) ==
    LET written == UpdateUpdater(nextState, before, setInteracted)
    IN  /\ thrown = "none"
        /\ queued < MaxQueued
        /\ thrown' = "queued"
        /\ state' = IF eager THEN written ELSE state
        /\ initialFormState' = IF eager /\ aliased THEN written ELSE initialFormState
        /\ queued' = queued + 1
        /\ timer' = (delayMs > 0)
        /\ lastOp' = Op("updateUndeclared")
        /\ ret' = undefined
        /\ UNCHANGED <<nextState, aliased, delayMs, input, output, timing>>

\* The render that runs the queued updater: the TypeError is thrown out of
\* the render, the component does not render again.
RenderThrows ==
    /\ thrown = "queued"
    /\ thrown' = "raised"
    /\ lastOp' = Op("render")
    /\ ret' = undefined
    /\ UNCHANGED <<state, nextState, queued, initialFormState, aliased, timer, delayMs, input, output, timing>>

NextUndeclared ==
    \/ thrown = "none" /\ Next
    \/ \E key \in UndeclaredKeys, value \in Values, setInteracted \in BOOLEAN :
          SetUndeclared(key, value, setInteracted)
    \/ \E before \in PartialData, setInteracted \in BOOLEAN, eager \in EagerChoices :
          UpdateUndeclared(before, setInteracted, eager)
    \/ RenderThrows

SpecUndeclared == Init /\ [][NextUndeclared]_vars

----------------------------------------------------------------------------
\* JavaScript values of the types the utilities tell apart.  undefined is
\* the value defined above; every other value is a record with its kind.

Num(n)      == [kind |-> "number", class |-> "finite", n |-> n]
NaN         == [kind |-> "number", class |-> "NaN"]
PosInfinity == [kind |-> "number", class |-> "Infinity"]
NegInfinity == [kind |-> "number", class |-> "-Infinity"]
Str(str)    == [kind |-> "string", str |-> str]
JSBool(b)   == [kind |-> "boolean", b |-> b]
Null        == [kind |-> "null"]
Arr(items)  == [kind |-> "array", items |-> items]
\* a Map with the given [key, value] entries, a Set with the given values
MapOf(entries) == [kind |-> "map", entries |-> entries]
SetOf(values)  == [kind |-> "set", values |-> values]
\* a plain object with the given own enumerable [key, value] properties and
\* the given properties inherited from its prototype
Obj(own, inherited) == [kind |-> "object", own |-> own, inherited |-> inherited]
DateOf(valid)  == [kind |-> "date", valid |-> valid]
FileList(files) == [kind |-> "filelist", files |-> files]
Blob(name)     == [kind |-> "blob", name |-> name]

KindOf(value) == IF value = undefined THEN "undefined" ELSE value.kind

\* typeof value
TypeOf(value) ==
    IF KindOf(value) \in {"number", "string", "boolean", "undefined"}
    THEN KindOf(value) ELSE "object"

\* Boolean(value)
ToBoolean(value) ==
    CASE KindOf(value) = "undefined" -> FALSE
      [] KindOf(value) = "null"      -> FALSE
      [] KindOf(value) = "boolean"   -> value.b
      [] KindOf(value) = "string"    -> value.str # ""
      [] KindOf(value) = "number"    -> value.class # "NaN" /\ (value.class = "finite" => value.n # 0)
      [] OTHER                       -> TRUE

\* checkIfRequiredValueFilled of index.ts on any value
checkIfRequiredValueFilledOfHook(value) ==
    CASE TypeOf(value) = "number" -> value.class = "finite"
      [] TypeOf(value) = "object" ->
            IF KindOf(value) = "array" THEN Len(value.items) > 0
            ELSE IF KindOf(value) = "null" THEN FALSE
            ELSE ToBoolean(value)
      [] OTHER -> ToBoolean(value)

\* checkIfRequiredValueFilled of the utilities on any value, where FileList
\* is defined
checkIfRequiredValueFilledOfUtils(value) ==
    CASE TypeOf(value) = "number" -> value.class = "finite"
      [] TypeOf(value) = "object" ->
            CASE KindOf(value) = "array"    -> Len(value.items) > 0
              [] KindOf(value) = "null"     -> FALSE
              [] KindOf(value) = "date"     -> value.valid
              [] KindOf(value) = "map"      -> Len(value.entries) > 0
              [] KindOf(value) = "set"      -> Len(value.values) > 0
              [] KindOf(value) = "filelist" -> Len(value.files) > 0
              [] KindOf(value) = "object"   -> Len(value.own) > 0
              [] OTHER                      -> FALSE    \* Object.keys(blob).length > 0
      [] TypeOf(value) = "boolean" -> TRUE
      [] OTHER -> ToBoolean(value)

\* value.toISOString() of a valid date
IsoStringOf(value) == "2024-01-01T00:00:00.000Z"

\* The strings of seq joined with sep between them.
RECURSIVE Join(_, _)
Join(seq, sep) ==
    IF seq = <<>> THEN ""
    ELSE IF Len(seq) = 1 THEN seq[1]
    ELSE seq[1] \o sep \o Join(Tail(seq), sep)

\* String(value), which FormData.append applies to a value that is not a Blob.
\* An array is joined with commas, null and undefined elements giving "".
RECURSIVE StringOf(_)
StringOf(value) ==
    CASE KindOf(value) = "undefined" -> "undefined"
      [] KindOf(value) = "null"      -> "null"
      [] KindOf(value) = "boolean"   -> IF value.b THEN "true" ELSE "false"
      [] KindOf(value) = "string"    -> value.str
      [] KindOf(value) = "number"    -> IF value.class = "finite" THEN ToString(value.n) ELSE value.class
      [] KindOf(value) = "array"     ->
            Join([i \in DOMAIN value.items |->
                    IF KindOf(value.items[i]) \in {"null", "undefined"} THEN ""
                    ELSE StringOf(value.items[i])], ",")
      [] KindOf(value) = "map"       -> "[object Map]"
      [] KindOf(value) = "set"       -> "[object Set]"
      [] KindOf(value) = "filelist"  -> "[object FileList]"
      [] KindOf(value) = "blob"      -> "[object Blob]"
      [] KindOf(value) = "date"      -> IF value.valid THEN "Mon Jan 01 2024 00:00:00 GMT+0000" ELSE "Invalid Date"
      [] OTHER                       -> "[object Object]"

\* JSON.stringify(value) for a value inside an array or an object.
RECURSIVE JsonStringify(_)
JsonStringify(value) ==
    CASE KindOf(value) \in {"undefined", "null"} -> "null"
      [] KindOf(value) = "boolean" -> IF value.b THEN "true" ELSE "false"
      [] KindOf(value) = "string"  -> "\"" \o value.str \o "\""
      [] KindOf(value) = "number"  -> IF value.class = "finite" THEN ToString(value.n) ELSE "null"
      [] KindOf(value) = "array"   ->
            "[" \o Join([i \in DOMAIN value.items |-> JsonStringify(value.items[i])], ",") \o "]"
      [] KindOf(value) = "object"  ->
            "{" \o Join([i \in DOMAIN value.own |->
                            "\"" \o value.own[i][1] \o "\":" \o JsonStringify(value.own[i][2])], ",")
                \o "}"
      [] KindOf(value) = "date"    -> IF value.valid THEN "\"" \o IsoStringOf(value) \o "\"" ELSE "null"
      [] OTHER                     -> "{}"

\* formData.append(key, value): a Blob is appended as a file, any other
\* value as its string.
FormDataAppend(formData, key, value) ==
    IF KindOf(value) = "blob" THEN Append(formData, <<key, value>>)
    ELSE Append(formData, <<key, Str(StringOf(value))>>)

\* The result of a call that appends to a FormData: the entries, and the
\* exception thrown, if any.
Appended(entries) == [entries |-> entries, throws |-> "none"]

\* appendToFormData(formData, key, value) of the utilities; AppendEach is
\* the forEach over the elements of an array or the files of a FileList.
RECURSIVE appendToFormData(_, _, _)
RECURSIVE AppendEach(_, _, _, _)
AppendEach(done, key, items, i) ==
    IF i > Len(items) \/ done.throws # "none" THEN done
    ELSE AppendEach(appendToFormData(done.entries, key, items[i]), key, items, i + 1)

appendToFormData(formData, key, value) ==
    CASE KindOf(value) = "filelist" -> AppendEach(Appended(formData), key, value.files, 1)
      [] KindOf(value) = "blob"     -> Appended(FormDataAppend(formData, key, value))
      [] KindOf(value) = "date"     ->
            IF value.valid THEN Appended(FormDataAppend(formData, key, Str(IsoStringOf(value))))
            ELSE [entries |-> formData, throws |-> "RangeError"]
      [] KindOf(value) = "map"      ->
            Appended(FormDataAppend(formData, key,
                Str(JsonStringify(Arr([i \in DOMAIN value.entries |-> Arr(value.entries[i])])))))
      [] KindOf(value) = "set"      ->
            Appended(FormDataAppend(formData, key, Str(JsonStringify(Arr(value.values)))))
      [] KindOf(value) = "array"    -> AppendEach(Appended(formData), key, value.items, 1)
      [] KindOf(value) = "object"   -> Appended(FormDataAppend(formData, key, Str(JsonStringify(value))))
      [] KindOf(value) \in {"null", "undefined"} -> Appended(FormDataAppend(formData, key, Str("")))
      [] OTHER                      -> Appended(FormDataAppend(formData, key, Str(StringOf(value))))

\* The entry extractStateValue({format: "formdata"}) of index.ts appends for
\* a field: formData.append(key, data.value).
appendOfHook(formData, key, value) == Appended(FormDataAppend(formData, key, value))

\* The values the utilities are called with.
JSPrimitives ==
    {Num(0), Num(5), NaN, PosInfinity, NegInfinity, Str(""), Str("a@b.com"),
     JSBool(TRUE), JSBool(FALSE), Null, undefined}

JSCollections ==
    {Arr(<<>>), Arr(<<Num(5)>>), Arr(<<Str("x"), Null>>), Arr(<<Arr(<<Num(1), Num(2)>>), Num(3)>>),
     MapOf(<<>>), MapOf(<< <<Str("k"), Num(5)>> >>),
     SetOf(<<>>), SetOf(<<Num(5)>>),
     Obj(<<>>, <<>>), Obj(<<>>, <<"inherited">>), Obj(<< <<"age", Num(5)>> >>, <<>>),
     DateOf(TRUE), DateOf(FALSE),
     FileList(<<>>), FileList(<<Blob("a.txt")>>), Blob("b.bin")}

JSValues == JSPrimitives \cup JSCollections

----------------------------------------------------------------------------
\* The validation utilities called on their own, one call per behaviour, on
\* forms of the two fields password and confirmPassword.

RuleTypes == {"longerThanOneChar", "matchPassword"}

\* The values given to the order of a rule.
RuleOrders == {0, 1, 2}

\* A rule without order: longerThanOneChar with a message, matchPassword without.
RuleOf(type) ==
    IF type = "matchPassword"
    THEN [type |-> type, validator |-> type]
    ELSE [type |-> type, validator |-> type, message |-> "Password must be longer than 1 character"]

Rules ==
    {RuleOf(type) : type \in RuleTypes}
        \cup {[order |-> order] @@ RuleOf(type) : type \in RuleTypes, order \in RuleOrders}

\* The validation parameters given to confirmPassword: none, one rule, or
\* two rules of different types in either order of declaration.
Validations ==
    {<<>>} \cup {<<rule>> : rule \in Rules}
           \cup {pair \in Rules \X Rules : pair[1].type # pair[2].type}

\* rec extended by extra when cond holds
Opt(cond, extra, rec) == IF cond THEN extra @@ rec ELSE rec

\* Field parameters whose validators are pure.  With crossCheck the field
\* declared first has a rule that reads the field declared second.
FormOf(defaults, required, validation, crossCheck) ==
    [ password |->
        Opt(crossCheck,
            [validation |-> << [type      |-> "matchConfirmation",
                                validator |-> "matchConfirmation",
                                message   |-> "Passwords must match"] >>],
            [ defaultValue |-> defaults[1],
              required     |-> [message |-> "Please enter your password"] ]),
      confirmPassword |->
        Opt(required, [required |-> [message |-> "Please confirm your password"]],
            Opt(validation # <<>>, [validation |-> validation],
                [defaultValue |-> defaults[2]])) ]

\* Field parameters with array values where the rule of password writes to
\* the value of confirmPassword.
MutatingFormOf(defaults) ==
    [ password |->
        [ defaultValue |-> defaults[1],
          validation   |-> << [type |-> "pushesOther", validator |-> "pushesOther"] >> ],
      confirmPassword |->
        [ defaultValue |-> defaults[2],
          validation   |-> << RuleOf("longerThanOneChar") >> ] ]

PureForms(defaultsSet, crossChecks) ==
    {FormOf(defaults, required, validation, crossCheck) :
        defaults \in defaultsSet, required \in BOOLEAN, validation \in Validations,
        crossCheck \in crossChecks}

MutatingForms(defaultsSet) == {MutatingFormOf(defaults) : defaults \in defaultsSet}

IsMutating(params) ==
    \E key \in DOMAIN params :
        /\ Has(params[key], "validation")
        /\ \E i \in DOMAIN params[key].validation :
              params[key].validation[i].validator = "pushesOther"

\* The rule whose validator may throw, alone, before and after a rule that
\* may fail.
ThrowingValidations ==
    LET throwing == [type |-> "knownPassword", validator |-> "throwsUnlessMatch"]
    IN  { <<throwing>>,
          <<throwing, RuleOf("longerThanOneChar")>>,
          <<RuleOf("longerThanOneChar"), throwing>>,
          <<[order |-> 2] @@ throwing, [order |-> 1] @@ RuleOf("longerThanOneChar")>> }

\* Field parameters whose confirmPassword has the rule that may throw.
ThrowingForms ==
    {FormOf(<< <<>>, <<>> >>, required, validation, FALSE) :
        required \in BOOLEAN, validation \in ThrowingValidations}

\* Validation parameters of one to three rules, named after their place in
\* the declaration, each with an order or without.
MixedValidations ==
    LET names == <<"first", "second", "third">>
        rule(i, order) ==
            Opt(order # undefined, [order |-> IF order = undefined THEN 0 ELSE order.n],
                [type |-> names[i], validator |-> "longerThanOneChar"])
        orders == {undefined} \cup {[n |-> order] : order \in RuleOrders}
    IN  UNION { {[i \in 1..n |-> rule(i, choice[i])] : choice \in [1..n -> orders]} : n \in 1..3 }

\* An error left by an earlier pass.
PriorErrors == {undefined, [type |-> "matchPassword", message |-> ""]}

\* A form state of params: the values, and isInteracted, isValid and error
\* of confirmPassword as earlier calls may have left them.
FormStateOf(params, values, isInteracted, isValid, error) ==
    [key \in DOMAIN params |->
        [ value        |-> IF key = "password" THEN values[1] ELSE values[2],
          label        |-> "",
          helperText   |-> undefined,
          isValid      |-> IF key = "password" THEN FALSE ELSE isValid,
          isInteracted |-> IF key = "password" THEN FALSE ELSE isInteracted,
          isRequired   |-> Has(params[key], "required"),
          error        |-> IF key = "password" THEN undefined ELSE error ]]

FormStates(params) ==
    {FormStateOf(params, values, isInteracted, isValid, error) :
        values \in Values \X Values, isInteracted \in BOOLEAN,
        isValid \in BOOLEAN, error \in PriorErrors}

\* getFieldValidationOutcome("confirmPassword", params, formState)
GetFieldValidationOutcome(params, formState) ==
    /\ input = undefined
    /\ input' = [fn |-> "getFieldValidationOutcome", params |-> params, state |-> formState]
    /\ output' = getFieldValidationOutcomeFor("confirmPassword", params, formState)
    /\ UNCHANGED <<state, nextState, queued, initialFormState, aliased, timer, delayMs, ret, lastOp, thrown, timing>>

\* applyValidation(currentState, params, {updateErrorType})
ApplyValidation(params, currentState, updateErrorType) ==
    /\ input = undefined
    /\ input' = [fn |-> "applyValidation", params |-> params, state |-> currentState,
                 updateErrorType |-> updateErrorType]
    /\ output' = applyValidation(currentState, params, updateErrorType)
    /\ UNCHANGED <<state, nextState, queued, initialFormState, aliased, timer, delayMs, ret, lastOp, thrown, timing>>

\* createInitialStateSnapshot(params)
CreateInitialStateSnapshot(params) ==
    /\ input = undefined
    /\ input' = [fn |-> "createInitialStateSnapshot", params |-> params]
    /\ output' = createInitialStateSnapshot(params)
    /\ UNCHANGED <<state, nextState, queued, initialFormState, aliased, timer, delayMs, ret, lastOp, thrown, timing>>

\* checkIfRequiredValueFilled(value), of index.ts and of the utilities
CheckIfRequiredValueFilled(value) ==
    /\ input = undefined
    /\ input' = [fn |-> "checkIfRequiredValueFilled", value |-> value]
    /\ output' = [hook  |-> checkIfRequiredValueFilledOfHook(value),
                  utils |-> checkIfRequiredValueFilledOfUtils(value)]
    /\ UNCHANGED <<state, nextState, queued, initialFormState, aliased, timer, delayMs, ret, lastOp, thrown, timing>>

\* The entries a field with the given value gets in the FormData, from
\* extractStateValue of index.ts and from appendToFormData of the utilities.
AppendToFormData(key, value) ==
    /\ input = undefined
    /\ input' = [fn |-> "appendToFormData", key |-> key, value |-> value]
    /\ output' = [hook  |-> appendOfHook(<<>>, key, value),
                  utils |-> appendToFormData(<<>>, key, value)]
    /\ UNCHANGED <<state, nextState, queued, initialFormState, aliased, timer, delayMs, ret, lastOp, thrown, timing>>

\* getFieldValidationOutcome("confirmPassword", params, formState) on a form
\* with a validator that may throw
GetFieldValidationOutcomeCall(params, formState) ==
    /\ input = undefined
    /\ input' = [fn |-> "getFieldValidationOutcomeCall", params |-> params, state |-> formState]
    /\ output' = getFieldValidationOutcomeCall("confirmPassword", params, formState)
    /\ UNCHANGED <<state, nextState, queued, initialFormState, aliased, timer, delayMs, ret, lastOp, thrown, timing>>

\* applyValidation(currentState, params, {updateErrorType}) on such a form
ApplyValidationCall(params, currentState, updateErrorType) ==
    /\ input = undefined
    /\ input' = [fn |-> "applyValidationCall", params |-> params, state |-> currentState,
                 updateErrorType |-> updateErrorType]
    /\ output' = applyValidationCall(currentState, params, updateErrorType)
    /\ UNCHANGED <<state, nextState, queued, initialFormState, aliased, timer, delayMs, ret, lastOp, thrown, timing>>

\* getOrderedValidationEntries(validationParams)
GetOrderedValidationEntries(validationParams) ==
    /\ input = undefined
    /\ input' = [fn |-> "getOrderedValidationEntries", validationParams |-> validationParams]
    /\ output' = getOrderedValidationEntries(validationParams)
    /\ UNCHANGED <<state, nextState, queued, initialFormState, aliased, timer, delayMs, ret, lastOp, thrown, timing>>

NextUtilities ==
    \/ /\ input = undefined
       /\ \E params \in PureForms({<< <<>>, <<>> >>}, {FALSE}) :
             \E formState \in FormStates(params) : GetFieldValidationOutcome(params, formState)
    \/ /\ input = undefined
       /\ \E params \in PureForms({<< <<>>, <<>> >>}, {FALSE}) \cup MutatingForms({<< <<>>, <<>> >>}),
              updateErrorType \in {undefined, Bool(TRUE), Bool(FALSE)} :
             \E currentState \in FormStates(params) :
                ApplyValidation(params, currentState, updateErrorType)
    \/ /\ input = undefined
       /\ \E params \in PureForms(Values \X Values, BOOLEAN) \cup MutatingForms(Values \X Values) :
             CreateInitialStateSnapshot(params)
    \/ /\ input = undefined
       /\ \E value \in JSValues : CheckIfRequiredValueFilled(value)
    \/ /\ input = undefined
       /\ \E key \in {"email", "age"}, value \in JSValues : AppendToFormData(key, value)
    \/ /\ input = undefined
       /\ \E params \in ThrowingForms :
             \E formState \in FormStates(params) : GetFieldValidationOutcomeCall(params, formState)
    \/ /\ input = undefined
       /\ \E params \in ThrowingForms, updateErrorType \in {undefined, Bool(TRUE), Bool(FALSE)} :
             \E currentState \in FormStates(params) :
                ApplyValidationCall(params, currentState, updateErrorType)
    \/ /\ input = undefined
       /\ \E validationParams \in MixedValidations : GetOrderedValidationEntries(validationParams)

SpecUtilities == Init /\ [][NextUtilities]_vars

----------------------------------------------------------------------------
\* Properties.

Outcome(key, formState) == getFieldValidationOutcome(key, formState)

ErrorsOf(formState) == [key \in Keys |-> formState[key].error]

IsCheck(op) == op.name = "checkIfAllValid"

\* The state updates of the calls made so far leave a state that is also
\* the rendered one once a render has applied them.
RenderedIsNext == queued = 0 => state = nextState

\* C1: the state every operation and every timer commit produces has, for each
\* field, isValid equal to the resolver's result on the current values of all
\* fields, and so has every rendered state; set on one field brings the isValid
\* of a field whose rule reads it up to date in the same call, while the timer
\* is still pending.
C1_IsValidNeverStale ==
    /\ \A key \in Keys : nextState[key].isValid = Outcome(key, nextState).isValid
    /\ queued = 0 => \A key \in Keys : state[key].isValid = Outcome(key, state).isValid

\* set on password has just turned the untouched value of confirmPassword
\* from valid to invalid, with the timer pending.
C1_Witness ==
    /\ lastOp.name = "set"
    /\ timer
    /\ queued = 1
    /\ state["password"].value # nextState["password"].value
    /\ state["confirmPassword"].value = nextState["confirmPassword"].value
    /\ state["confirmPassword"].isValid
    /\ ~nextState["confirmPassword"].isValid

\* C2: with a positive delay, set and update change no error, neither in the
\* rendered state nor in the state they produce, and leave the timer pending;
\* the timer fires only while pending, once, and its commit gives every
\* interacted field the error of the values current at the commit.  So the
\* error of a value that was replaced before the delay elapsed is never shown.
C2_Step ==
    /\ (delayMs > 0 /\ lastOp'.name \in {"set", "update"}) =>
          /\ ErrorsOf(nextState') = ErrorsOf(nextState)
          /\ ErrorsOf(state') = ErrorsOf(state)
          /\ timer'
    /\ lastOp'.name = "timer" =>
          /\ timer
          /\ ~timer'
          /\ \A key \in Keys :
                nextState'[key].isInteracted =>
                    nextState'[key].error = Outcome(key, nextState').error

C2_NoIntermediateError == [][C2_Step]_vars

\* Two calls of one turn: the rendered password holds the invalid value "a" of
\* the first, a later set has replaced it by the valid "ab", the commit is
\* pending and no error of password is shown or queued.
C2_Witness ==
    /\ delayMs > 0
    /\ lastOp.name = "set"
    /\ timer
    /\ queued = 2
    /\ state["password"].value = <<"a">>
    /\ state["password"].isInteracted
    /\ state["password"].error = undefined
    /\ nextState["password"].value = <<"a", "b">>
    /\ nextState["password"].isValid
    /\ nextState["password"].error = undefined

\* C3: reset() leaves the state the initial-state factory builds and no
\* pending timer.
C3_ResetRestoresInitialState ==
    lastOp.name = "reset" => (nextState = createInitialState /\ ~timer)

\* C4: when checkIfAllValid never forces errors, a field that is not
\* interacted has no error, for every delay.
C4_UntouchedFieldHasNoError ==
    \A key \in Keys :
        /\ ~nextState[key].isInteracted => nextState[key].error = undefined
        /\ ~state[key].isInteracted => state[key].error = undefined

\* C5 as stated: whenever no timer is pending, a field whose error is defined
\* is invalid and has the resolver's error.
C5_ErrorAgreesWhenNoTimer ==
    ~timer =>
        \A key \in Keys :
            nextState[key].error # undefined =>
                /\ ~nextState[key].isValid
                /\ nextState[key].error = Outcome(key, nextState).error

\* C5 amended: the state a timer commit produces has, for every interacted
\* field, the resolver's error for the current values (undefined iff valid);
\* the errors of the other fields are the ones they had.
C5_CommitAgreesForInteracted ==
    lastOp.name = "timer" =>
        \A key \in Keys :
            nextState[key].isInteracted =>
                /\ nextState[key].error = Outcome(key, nextState).error
                /\ nextState[key].error = undefined <=> nextState[key].isValid

\* A commit has made the error of the interacted password visible while the
\* untouched confirmPassword, invalid too, shows none.
C5_Witness ==
    /\ lastOp.name = "timer"
    /\ nextState["password"].isInteracted
    /\ nextState["password"].error # undefined
    /\ ~nextState["confirmPassword"].isInteracted
    /\ ~nextState["confirmPassword"].isValid
    /\ nextState["confirmPassword"].error = undefined

\* C6: checkIfAllValid() with its defaults produces a state in which every
\* field, interacted or not, has the resolver's error for the current values,
\* undefined iff the field is valid.
C6_CheckShowsAllErrors ==
    (IsCheck(lastOp) /\ lastOp.updateErrorType = undefined) =>
        \A key \in Keys :
            /\ nextState[key].error = Outcome(key, nextState).error
            /\ nextState[key].error = undefined <=> nextState[key].isValid

\* checkIfAllValid() has given an error to a field nobody interacted with.
C6_Witness ==
    /\ IsCheck(lastOp)
    /\ lastOp.updateErrorType = undefined
    /\ \E key \in Keys :
          /\ ~nextState[key].isInteracted
          /\ nextState[key].error # undefined
          /\ state[key].error = undefined

\* C7: checkIfAllValid returns true iff every field is valid under the values
\* current at the call, the values written earlier in the same turn included.
C7_ReturnsCurrentValidity ==
    IsCheck(lastOp) =>
        (ret.bool <=> \A key \in Keys : Outcome(key, nextState).isValid)

C10_ReinitializeAsReset ==
    lastOp.name = "reinitialize" => (nextState = createInitialState /\ ~timer)

\* C11: set and update called with a key that is not a declared field raise
\* no error, neither at the call nor in the render that applies it, and leave
\* the rendered state and the state the queued updates produce unchanged.
C11_UndeclaredKeyStep ==
    /\ lastOp'.name \in {"setUndeclared", "updateUndeclared"} =>
          /\ thrown' = "none"
          /\ state' = state
          /\ nextState' = nextState
    /\ thrown' # "raised"

C11_UndeclaredKeyIsSilentNoOp == [][C11_UndeclaredKeyStep]_vars

\* C12: in the state the calls made so far produce, and in every rendered
\* state with nothing queued, a required field whose value is unfilled is
\* invalid, and the resolver's outcome for it is the error of type "required"
\* with the configured message, also when a rule of the field fails too.
C12_RequiredUnfilled(formState) ==
    \A key \in Keys :
        (formState[key].isRequired /\ ~checkIfRequiredValueFilled(formState[key].value)) =>
            /\ ~formState[key].isValid
            /\ Outcome(key, formState) =
                  [isValid |-> FALSE,
                   error   |-> [type |-> "required", message |-> formFieldParams[key].required.message]]

C12_RequiredUnfilledIsInvalid ==
    /\ C12_RequiredUnfilled(nextState)
    /\ queued = 0 => C12_RequiredUnfilled(state)

\* The password, required and with a rule that fails on the empty string, was
\* filled with a valid value and then emptied again by set.
C12_Witness ==
    /\ lastOp.name = "set"
    /\ state["password"].value = <<"a", "b">>
    /\ state["password"].isValid
    /\ nextState["password"].value = <<>>
    /\ ~nextState["password"].isValid
    /\ ~validator("longerThanOneChar", nextState["password"].value, nextState)

\* The call made on its own was a call of fn.
Called(fn) == input # undefined /\ input.fn = fn

\* The indices, in the resolved order, of the rules of confirmPassword whose
\* validator returns false on the state of the call.
FailingRules(rules) ==
    {i \in DOMAIN rules :
        ~validator(rules[i].validator, input.state["confirmPassword"].value, input.state)}

\* C13: for a field that passes the required check and declares rules, the
\* resolver returns invalid with the type of the first rule, in resolved order,
\* whose validator returns false and with that rule's message, "" when the
\* rule has none; when every rule passes it returns valid with no error.
C13_FirstFailingRuleIsReported ==
    Called("getFieldValidationOutcome") =>
        LET fieldParams == input.params["confirmPassword"]
            fieldState  == input.state["confirmPassword"]
            rules       == getOrderedValidationEntries(fieldParams.validation)
            failing     == FailingRules(rules)
            first       == CHOOSE i \in failing : \A j \in failing : i <= j
        IN  (/\ ~(fieldState.isRequired /\ ~checkIfRequiredValueFilled(fieldState.value))
             /\ Has(fieldParams, "validation")) =>
                IF failing = {}
                THEN output = [isValid |-> TRUE, error |-> undefined]
                ELSE output = [isValid |-> FALSE,
                               error   |-> [type    |-> rules[first].type,
                                            message |-> IF Has(rules[first], "message")
                                                        THEN rules[first].message ELSE ""]]

\* Both rules of a filled field fail and the one reported is the first in
\* resolved order, which has no message.
C13_Witness ==
    /\ Called("getFieldValidationOutcome")
    /\ checkIfRequiredValueFilled(input.state["confirmPassword"].value)
    /\ Has(input.params["confirmPassword"], "validation")
    /\ Cardinality(FailingRules(input.params["confirmPassword"].validation)) = 2
    /\ output.error = [type |-> "matchPassword", message |-> ""]

\* The index among the failing rules of declared that comes first by order,
\* and by declaration among equal orders.
FirstByOrder(declared, failing) ==
    CHOOSE i \in failing :
        \A j \in failing \ {i} :
            \/ declared[i].order < declared[j].order
            \/ declared[i].order = declared[j].order /\ i < j

\* C14: when every rule has an order the rules run in ascending order, in
\* declaration order among equal orders, and the error reported is that of the
\* failing rule that comes first that way (of two failing rules with order 2
\* and order 1 the order-1 rule, whichever was declared first); when no rule
\* has an order they run in declaration order.
C14_RulesRunInAscendingOrder ==
    (Called("getFieldValidationOutcome") /\ Has(input.params["confirmPassword"], "validation")) =>
        LET declared   == input.params["confirmPassword"].validation
            fieldState == input.state["confirmPassword"]
            rules      == getOrderedValidationEntries(declared)
            failing    == FailingRules(declared)
            passesRequired ==
                ~(fieldState.isRequired /\ ~checkIfRequiredValueFilled(fieldState.value))
        IN  /\ Len(rules) = Len(declared)
            /\ {rules[i] : i \in DOMAIN rules} = {declared[i] : i \in DOMAIN declared}
            /\ (\A i \in DOMAIN declared : Has(declared[i], "order")) =>
                  /\ \A i, j \in DOMAIN rules :
                        i < j =>
                            \/ rules[i].order < rules[j].order
                            \/ /\ rules[i].order = rules[j].order
                               /\ \E a, b \in DOMAIN declared :
                                     a < b /\ declared[a] = rules[i] /\ declared[b] = rules[j]
                  /\ (passesRequired /\ failing # {}) =>
                        output.error.type = declared[FirstByOrder(declared, failing)].type
            /\ (\A i \in DOMAIN declared : ~Has(declared[i], "order")) =>
                  /\ rules = declared
                  /\ (passesRequired /\ failing # {}) =>
                        output.error.type =
                            declared[CHOOSE i \in failing : \A j \in failing : i <= j].type

\* The rule declared first has order 2, the rule declared second has order 1,
\* both fail, and the error is that of the rule declared second.
C14_Witness ==
    /\ Called("getFieldValidationOutcome")
    /\ Has(input.params["confirmPassword"], "validation")
    /\ Len(input.params["confirmPassword"].validation) = 2
    /\ LET declared == input.params["confirmPassword"].validation
       IN  /\ Has(declared[1], "order") /\ declared[1].order = 2
           /\ Has(declared[2], "order") /\ declared[2].order = 1
           /\ FailingRules(declared) = {1, 2}
           /\ checkIfRequiredValueFilled(input.state["confirmPassword"].value)
           /\ output.error.type = declared[2].type

\* C15: one pass of applyValidation with pure validators gives every field
\* the freshly computed isValid, and replaces its error by the freshly
\* computed one (undefined when valid) iff updateErrorType is true, or is
\* unset and the field's isInteracted is true; otherwise the field keeps the
\* error it had.  Value and isInteracted are left alone.
C15_ErrorReplacedIffRequested ==
    (Called("applyValidation") /\ ~IsMutating(input.params)) =>
        \A key \in DOMAIN input.state :
            LET prev    == input.state[key]
                next    == output.nextState[key]
                fresh   == getFieldValidationOutcomeFor(key, input.params, input.state)
                replace == \/ input.updateErrorType = Bool(TRUE)
                           \/ input.updateErrorType = undefined /\ prev.isInteracted
            IN  /\ next.isValid = fresh.isValid
                /\ next.error = IF replace THEN fresh.error ELSE prev.error
                /\ next.value = prev.value
                /\ next.isInteracted = prev.isInteracted

\* A pass with updateErrorType unset on a field that is not interacted: the
\* field was marked valid with an error of an earlier pass, the pass finds it
\* invalid with another error, sets isValid and keeps the earlier error.
C15_Witness ==
    /\ Called("applyValidation")
    /\ ~IsMutating(input.params)
    /\ input.updateErrorType = undefined
    /\ ~input.state["confirmPassword"].isInteracted
    /\ input.state["confirmPassword"].isValid
    /\ input.state["confirmPassword"].error = [type |-> "matchPassword", message |-> ""]
    /\ ~output.nextState["confirmPassword"].isValid
    /\ output.nextState["confirmPassword"].error = input.state["confirmPassword"].error
    /\ getFieldValidationOutcomeFor("confirmPassword", input.params, input.state).error.type
          = "longerThanOneChar"

\* C16: a validator that writes to the state it is given, or to a value
\* reachable from it, changes neither the state a validation pass produces
\* nor what the validators of the other fields see in that pass: the values
\* of the state produced are those the pass started from, and every isValid
\* is the resolver's result on those values.
C16_MutatingValidatorChangesNothing ==
    /\ Called("applyValidation") =>
          \A key \in DOMAIN input.state :
              /\ output.nextState[key].value = input.state[key].value
              /\ output.nextState[key].isValid =
                    getFieldValidationOutcomeFor(key, input.params, input.state).isValid
    /\ Called("createInitialStateSnapshot") =>
          \A key \in DOMAIN input.params :
              /\ output[key].value = input.params[key].defaultValue
              /\ output[key].isValid =
                    getFieldValidationOutcomeFor(key, input.params, assembleSnapshot(input.params)).isValid

\* C17: update applies all the listed keys in one state transition.  The
\* state the closure reads after the call is either the state before the call
\* or has every value and isInteracted of the state the call produces, the
\* validation pass of the call has seen all the new values together, the call
\* queues one transition, and the one timeout of inputDebounceRef is pending
\* after the call iff the delay is positive.
C17_Step ==
    lastOp'.name = "update" =>
        /\ \/ state' = state
           \/ \A key \in Keys :
                 /\ state'[key].value = nextState'[key].value
                 /\ state'[key].isInteracted = nextState'[key].isInteracted
        /\ \A key \in Keys : nextState'[key].isValid = Outcome(key, nextState').isValid
        /\ queued' = queued + 1
        /\ timer' = (delayMs > 0)

C17_UpdateIsAtomic == [][C17_Step]_vars

\* An update that changed both values has been run eagerly: the closure's
\* state shows both new values, and the timer is pending.
C17_Witness ==
    /\ lastOp.name = "update"
    /\ queued = 1
    /\ timer
    /\ \A key \in Keys :
          /\ state[key].value # createInitialState[key].value
          /\ state[key].value = nextState[key].value
    /\ \E key \in Keys : state[key].isValid # nextState[key].isValid

\* C18: isInteracted of every field is false initially.  In the state the
\* calls produce it turns true only in a step of set or update, and the
\* updaters of set and update make it true for the fields they target when
\* interaction is enabled and leave it as it is otherwise; it turns false
\* only in a step of reset or of a reinitialization, so it stays true through
\* set, update, checkIfAllValid and the timer commit.
C18_Updaters ==
    /\ \A key \in Keys, setInteracted \in BOOLEAN : \A value \in ValuesOf(key) :
          LET written == SetUpdater(nextState, key, value, setInteracted)
          IN  \A other \in Keys :
                 written[other].isInteracted =
                    IF other = key /\ setInteracted THEN TRUE ELSE nextState[other].isInteracted
    /\ \A data \in PartialData, setInteracted \in BOOLEAN :
          LET written == UpdateUpdater(nextState, data, setInteracted)
          IN  \A other \in Keys :
                 written[other].isInteracted =
                    IF other \in DOMAIN data /\ setInteracted THEN TRUE ELSE nextState[other].isInteracted

C18_Step ==
    \A key \in Keys :
        /\ (~nextState[key].isInteracted /\ nextState'[key].isInteracted) =>
              lastOp'.name \in {"set", "update"}
        /\ (nextState[key].isInteracted /\ ~nextState'[key].isInteracted) =>
              lastOp'.name \in {"reset", "reinitialize"}

C18_IsInteractedIsMonotonic ==
    /\ [](lastOp.name = "init" => \A key \in Keys : ~state[key].isInteracted)
    /\ []C18_Updaters
    /\ [][C18_Step]_vars

\* A field made interacted by a call of an earlier turn is still interacted
\* after a set or update that left it so and a checkIfAllValid, while the other
\* field has never been interacted.
C18_Witness ==
    /\ IsCheck(lastOp)
    /\ queued = 2
    /\ state["password"].isInteracted
    /\ nextState["password"].isInteracted
    /\ nextState["password"].value # state["password"].value
    /\ ~nextState["confirmPassword"].isInteracted

\* C19: the rendered state, the state the calls made so far produce and the
\* closure's initialFormState have exactly the declared fields as keys,
\* calls with an undeclared key included.
C19_KeysAreTheDeclaredFields ==
    /\ DOMAIN state = Keys
    /\ DOMAIN nextState = Keys
    /\ DOMAIN initialFormState = Keys

\* After update was called with data that lists a declared field and then an
\* undeclared key, and has written the declared field.
C19_Witness ==
    /\ lastOp.name = "updateUndeclared"
    /\ state # nextState
    /\ \A key \in UndeclaredKeys : key \notin DOMAIN state /\ key \notin DOMAIN nextState

\* C20: the initial state has, for every declared field, the default value,
\* isInteracted false, no error, isRequired true iff required is declared,
\* and isValid equal to the resolver's result on the assembled defaults of
\* all fields, for a rule of the first field that reads the second as for a
\* rule of the second that reads the first; so a required field with an
\* unfilled default starts invalid and without error.  This holds of the
\* state of the hook's first render and of createInitialStateSnapshot.
C20_IsInitial(formState, params) ==
    \A key \in DOMAIN params :
        /\ formState[key].value = params[key].defaultValue
        /\ ~formState[key].isInteracted
        /\ formState[key].error = undefined
        /\ formState[key].isRequired = Has(params[key], "required")
        /\ formState[key].isValid = getFieldValidationOutcomeFor(key, params, formState).isValid
        /\ (Has(params[key], "required") /\ ~checkIfRequiredValueFilled(params[key].defaultValue))
              => ~formState[key].isValid

C20_InitialState ==
    /\ lastOp.name = "init" => C20_IsInitial(state, formFieldParams)
    /\ (Called("createInitialStateSnapshot") /\ ~IsMutating(input.params)) =>
          C20_IsInitial(output, input.params)

\* The snapshot of a form whose first field has a rule reading the second:
\* the defaults of the two fields differ, so the first field starts invalid,
\* and the second, required with an empty default, starts invalid too.
C20_Witness ==
    /\ Called("createInitialStateSnapshot")
    /\ Has(input.params["password"], "validation")
    /\ ~IsMutating(input.params)
    /\ input.params["password"].defaultValue = <<"a", "b">>
    /\ input.params["confirmPassword"].defaultValue = <<>>
    /\ Has(input.params["confirmPassword"], "required")
    /\ ~output["password"].isValid
    /\ ~output["confirmPassword"].isValid
    /\ output["confirmPassword"].error = undefined

\* C21: with a delay of 0 no timeout is ever pending, and the state set or
\* update produces has, for every interacted field, the error the resolver
\* returns for the new values, which is undefined iff the field is valid.
C21_Step ==
    (delayMs = 0 /\ lastOp'.name \in {"set", "update"}) =>
        \A key \in Keys :
            nextState'[key].isInteracted =>
                /\ nextState'[key].error = Outcome(key, nextState').error
                /\ (nextState'[key].error = undefined) <=> nextState'[key].isValid

C21_ZeroDelayIsSynchronous ==
    /\ [](delayMs = 0 => ~timer)
    /\ [][C21_Step]_vars

\* With a delay of 0, set has just given an interacted password a value that
\* fails its rule: the error of the rule is in the state the call produced,
\* not yet in the rendered one, and no timeout is pending.
C21_Witness ==
    /\ delayMs = 0
    /\ lastOp.name = "set"
    /\ ~timer
    /\ nextState["password"].isInteracted
    /\ nextState["password"].value = <<"a">>
    /\ nextState["password"].error.type = "longerThanOneChar"
    /\ state["password"].error = undefined

\* checkIfRequiredValueFilled has been called on its own with a value of one
\* of the kinds.
CalledFilledOn(kinds) ==
    Called("checkIfRequiredValueFilled") /\ KindOf(input.value) \in kinds

\* C22: checkIfRequiredValueFilled, of the hook as of the utilities, returns
\* a boolean for every value; every finite number, 0 included, is filled, NaN
\* and the infinities are not, null and undefined are not, an array, map or
\* set is filled iff it is not empty, and a plain object iff it has an own
\* enumerable key.
C22_Table(filled) ==
    /\ filled \in BOOLEAN
    /\ CalledFilledOn({"number"}) => (filled <=> input.value.class = "finite")
    /\ CalledFilledOn({"null", "undefined"}) => ~filled
    /\ CalledFilledOn({"array"}) => (filled <=> input.value.items # <<>>)
    /\ CalledFilledOn({"map"}) => (filled <=> input.value.entries # <<>>)
    /\ CalledFilledOn({"set"}) => (filled <=> input.value.values # <<>>)
    /\ CalledFilledOn({"object"}) => (filled <=> input.value.own # <<>>)

C22_FilledOnNumbersAndCollections ==
    Called("checkIfRequiredValueFilled") => C22_Table(output.hook) /\ C22_Table(output.utils)

\* C23: on strings and booleans checkIfRequiredValueFilled, of the hook as of
\* the utilities, is truthiness: false for "" and for false, true for every
\* other string and for true.
C23_Truthiness(filled) ==
    /\ CalledFilledOn({"string"}) => (filled <=> input.value.str # "")
    /\ CalledFilledOn({"boolean"}) => (filled <=> input.value.b)

C23_FilledOnStringsAndBooleans ==
    Called("checkIfRequiredValueFilled") => C23_Truthiness(output.hook) /\ C23_Truthiness(output.utils)

\* C24: extractStateValue({format: "object"}) returns an object with exactly
\* the declared fields as keys, each with the value the calls made so far have
\* given the field, whether or not a timeout is pending; and reset produces a
\* state whose values are the defaults, which is what it returns after reset.
C24_Step ==
    (lastOp'.name = "extractStateValue" /\ ret'.format = "object") =>
        /\ DOMAIN ret'.data = Keys
        /\ \A key \in Keys : ret'.data[key] = nextState[key].value

C24_ExtractionYieldsCurrentValues ==
    /\ [](lastOp.name = "reset" =>
            \A key \in Keys : nextState[key].value = formFieldParams[key].defaultValue)
    /\ [][C24_Step]_vars

\* The entries the claim gives a value under key: one entry with the string
\* form of a number, string or boolean, one empty entry for null and
\* undefined, and for an array the entries of its elements, in order.
RECURSIVE C25_EntriesOf(_, _)
C25_EntriesOf(key, value) ==
    CASE KindOf(value) \in {"null", "undefined"} -> << <<key, Str("")>> >>
      [] KindOf(value) = "array" ->
            IF value.items = <<>> THEN <<>>
            ELSE C25_EntriesOf(key, Head(value.items))
                    \o C25_EntriesOf(key, Arr(Tail(value.items)))
      [] KindOf(value) = "boolean" -> << <<key, Str(IF value.b THEN "true" ELSE "false")>> >>
      [] KindOf(value) = "string"  -> << <<key, value>> >>
      [] OTHER -> << <<key, Str(IF value.class = "finite" THEN ToString(value.n) ELSE value.class)>> >>

\* The JSON strings of a map, a set or a plain object: of the value itself,
\* or of the array of its entries or values.
C25_JsonOf(value) ==
    CASE KindOf(value) = "map" ->
            {"{}", JsonStringify(Arr([i \in DOMAIN value.entries |-> Arr(value.entries[i])]))}
      [] KindOf(value) = "set" -> {"{}", JsonStringify(Arr(value.values))}
      [] OTHER -> {JsonStringify(value)}

\* C25: the entries appended for a field, by extractStateValue of the hook as
\* by appendToFormData of the utilities, follow the type of the value: a
\* primitive gives one entry with its string form (5 gives "5"), null and
\* undefined one entry with the empty string, an array the entries of its
\* elements in order under the same key, nested arrays included, and a map,
\* a set or a plain object one entry with a JSON string.
C25_Flattened(result) ==
    /\ KindOf(input.value) \in {"number", "string", "boolean", "null", "undefined", "array"} =>
            /\ result.throws = "none"
            /\ result.entries = C25_EntriesOf(input.key, input.value)
    /\ input.value = Num(5) => result.entries = << <<input.key, Str("5")>> >>
    /\ KindOf(input.value) \in {"map", "set", "object"} =>
            /\ result.throws = "none"
            /\ Len(result.entries) = 1
            /\ result.entries[1][1] = input.key
            /\ KindOf(result.entries[1][2]) = "string"
            /\ result.entries[1][2].str \in C25_JsonOf(input.value)

C25_FlattenedPayload ==
    Called("appendToFormData") => C25_Flattened(output.hook) /\ C25_Flattened(output.utils)

\* C26: at most one timeout is pending, and timer says whether one is; every
\* set and update clears the timeout pending before and, with a positive
\* delay, leaves one new timeout with the full delay; the timeout that fires
\* is the one of the last set or update, and it fires no earlier than the
\* delay after that call.
C26_Step ==
    /\ lastOp'.name \in {"set", "update"} =>
          /\ timeouts' \cap timeouts = {}
          /\ timeouts' = IF delayMs > 0
                         THEN {[handle |-> inputDebounceRef', setAt |-> now', delay |-> delayMs]}
                         ELSE {}
          /\ inputDebounceRef' # inputDebounceRef <=> delayMs > 0
    /\ lastOp'.name = "timer" =>
          /\ Cardinality(timeouts \ timeouts') = 1
          /\ \A timeout \in timeouts \ timeouts' :
                /\ timeout.handle = inputDebounceRef
                /\ timeout.setAt = editedAt
                /\ now >= editedAt + delayMs

C26_OneTimeoutPending ==
    /\ [](Cardinality(timeouts) <= 1 /\ (timer <=> timeouts # {}))
    /\ [][C26_Step]_vars

\* A burst of two edits, at 0 and at 250 ms: the timeout of the first was
\* cleared, the one of the second has fired, 500 ms after the second.
C26_Witness ==
    /\ lastOp.name = "timer"
    /\ inputDebounceRef = Handle(2)
    /\ editedAt = 250
    /\ now = 750
    /\ timeouts = {}

\* The last step was a call that supersedes the pending commit without a
\* timeout of its own: a reinitialization or a committing checkIfAllValid.
C27_Superseded ==
    \/ lastOp.name = "reinitialize"
    \/ IsCheck(lastOp) /\ lastOp.commitState = undefined

\* C27: what identifies the pending commit, the handle in inputDebounceRef,
\* only ever increases; and a timeout callback that runs after its commit was
\* superseded is not the one identified as pending any more and leaves the
\* state unchanged.  (A timeout superseded by set, update or reset has been
\* cleared and its callback never runs.)
C27_Step ==
    /\ inputDebounceRef' # inputDebounceRef =>
          (inputDebounceRef = undefined \/ inputDebounceRef'.handle > inputDebounceRef.handle)
    /\ (lastOp'.name = "timer" /\ C27_Superseded) =>
          /\ \A timeout \in timeouts \ timeouts' : timeout.handle # inputDebounceRef
          /\ nextState' = nextState

C27_SupersededCallbackChangesNothing == [][C27_Step]_vars

\* The last step was a call after which a pending commit need not happen any
\* more: set, update, reset, a reinitialization or a committing checkIfAllValid.
C28_Called ==
    \/ lastOp.name \in {"set", "update", "reset", "reinitialize"}
    \/ IsCheck(lastOp) /\ lastOp.commitState = undefined

\* The last step was the commit, and every interacted field has the error of
\* its current value.
C28_Committed ==
    /\ lastOp.name = "timer"
    /\ ~timer
    /\ \A key \in Keys :
          nextState[key].isInteracted =>
              nextState[key].error = Outcome(key, nextState).error

\* C28: a commit left pending by set or update with a positive delay
\* eventually happens, unless another call follows: once the call has
\* returned and a step that is no call has been taken (a render, say) with
\* the commit pending, either the timeout fires, and then every interacted
\* field has the error of its current value, or a call is made; and the call
\* itself is followed by some step.
C28_PendingCommitHappens ==
    /\ (timer /\ ~C28_Called) ~> (C28_Committed \/ C28_Called)
    /\ (timer /\ lastOp.name \in {"set", "update"}) ~> (lastOp.name \notin {"set", "update"})

\* The commit after set("password", "a") has happened: the rendered state
\* shows no error yet, the next one shows the error of "a".
C28_Witness ==
    /\ C28_Committed
    /\ delayMs > 0
    /\ state["password"].value = <<"a">>
    /\ state["password"].error = undefined
    /\ nextState["password"].value = <<"a">>
    /\ nextState["password"].isInteracted
    /\ nextState["password"].error.type = "longerThanOneChar"

\* C29: with a positive delay, the state a call of set or update produces
\* has, for every field, the error the field had before the call and the
\* isValid the resolver gives for the new values.
C29_Step ==
    (delayMs > 0 /\ lastOp'.name \in {"set", "update"}) =>
        \A key \in Keys :
            /\ nextState'[key].error = nextState[key].error
            /\ nextState'[key].isValid = Outcome(key, nextState').isValid

C29_ErrorsKeptIsValidFresh == [][C29_Step]_vars

\* set has replaced a password that shows its error by a valid one: the
\* field is valid and still has the error, the commit is pending.
C29_Witness ==
    /\ delayMs > 0
    /\ lastOp.name = "set"
    /\ timer
    /\ nextState["password"].value = <<"a", "b">>
    /\ nextState["password"].isValid
    /\ nextState["password"].error # undefined

\* What a field is given by its declaration: label, helperText, isRequired.
C30_Declared(field) == <<field.label, field.helperText, field.isRequired>>

\* What only a call targeting the field changes: value and isInteracted.
C30_Entered(field) == <<field.value, field.isInteracted>>

\* after differs from before at most in the value and isInteracted of targets.
C30_Frame(before, after, targets) ==
    \A key \in Keys :
        /\ C30_Declared(after[key]) = C30_Declared(before[key])
        /\ key \notin targets => C30_Entered(after[key]) = C30_Entered(before[key])

\* C30: the updater of set changes the value, and with setInteracted the
\* isInteracted, of its key only, the updater of update those of the keys of
\* its data only, and a validation pass none; so a step of set changes them
\* for one field at most, and a timer commit and checkIfAllValid for none.
\* label, helperText and isRequired of every field stay as they are.
C30_Updaters ==
    /\ \A key \in Keys, setInteracted \in BOOLEAN : \A value \in ValuesOf(key) :
          LET written == SetUpdater(nextState, key, value, setInteracted)
          IN  /\ C30_Frame(nextState, written, {key})
              /\ C30_Entered(written[key]) =
                    <<value, setInteracted \/ nextState[key].isInteracted>>
    /\ \A data \in PartialData, setInteracted \in BOOLEAN :
          LET written == UpdateUpdater(nextState, data, setInteracted)
          IN  /\ C30_Frame(nextState, written, DOMAIN data)
              /\ \A key \in DOMAIN data :
                    C30_Entered(written[key]) =
                        <<data[key], setInteracted \/ nextState[key].isInteracted>>
    /\ \A updateErrorType \in {undefined, Bool(TRUE), Bool(FALSE)} :
          C30_Frame(nextState, RunValidationUpdater(nextState, updateErrorType), {})

C30_Step ==
    /\ lastOp'.name = "set" =>
          \E key \in Keys :
              C30_Frame(nextState, nextState', {key}) /\ C30_Frame(state, state', {key})
    /\ lastOp'.name = "update" =>
          C30_Frame(nextState, nextState', Keys) /\ C30_Frame(state, state', Keys)
    /\ (lastOp'.name = "timer" \/ IsCheck(lastOp')) =>
          C30_Frame(nextState, nextState', {}) /\ C30_Frame(state, state', {})

C30_OnlyTargetedFieldsChange ==
    /\ []C30_Updaters
    /\ [][C30_Step]_vars

\* update has given confirmPassword a value without marking it, after a call
\* that entered the password: the password is as that call left it, and the
\* labels are the declared ones.
C30_Witness ==
    /\ lastOp.name = "update"
    /\ nextState["password"].value = <<"a">>
    /\ nextState["password"].isInteracted
    /\ nextState["confirmPassword"].value = <<"a", "b">>
    /\ ~nextState["confirmPassword"].isInteracted
    /\ state["confirmPassword"].value = <<>>
    /\ nextState["password"].label = "Password"
    /\ nextState["confirmPassword"].label = ""
    /\ nextState["password"].isRequired

\* C31: a step of set, update, checkIfAllValid or the timer commit leaves the
\* state the last render exposed, and the initial-state object that reset
\* restores, with the contents they had.
C31_Step ==
    (lastOp'.name \in {"set", "update", "timer"} \/ IsCheck(lastOp')) =>
        /\ state' = state
        /\ initialFormState' = initialFormState

C32_ErrorIsDeclared(formState, key) ==
    LET error == formState[key].error
    IN  \/ error = undefined
        \/ error.type = "required" /\ formState[key].isRequired
        \/ \E i \in DOMAIN ValidationEntries(key) : error.type = ValidationEntries(key)[i].type

\* C32: in the rendered state, in the state the calls made so far produce and
\* in the closure's initialFormState, the error of every field is undefined,
\* or has the type "required" and the field is required, or has the type of
\* a rule declared for that field.
C32_ErrorTypesAreDeclared ==
    \A key \in Keys :
        /\ C32_ErrorIsDeclared(state, key)
        /\ C32_ErrorIsDeclared(nextState, key)
        /\ C32_ErrorIsDeclared(initialFormState, key)

\* The required password is empty and says so, and the confirmation fails
\* the rule that compares it with the password.
C32_Witness ==
    /\ nextState["password"].error # undefined
    /\ nextState["password"].error.type = "required"
    /\ nextState["confirmPassword"].error # undefined
    /\ nextState["confirmPassword"].error.type = "matchPassword"
    /\ state["confirmPassword"].error = undefined

\* A call of getFieldValidationOutcome or applyValidation on a form with a
\* validator that may throw.
C33_Called == Called("getFieldValidationOutcomeCall") \/ Called("applyValidationCall")

\* In the call a validator that throws is run: confirmPassword is not an
\* unfilled required field, its value is not the password, and every rule
\* before the throwing one in the resolved order passes.
C33_ValidatorThrows ==
    LET field == input.state["confirmPassword"]
        rules == getOrderedValidationEntries(input.params["confirmPassword"].validation)
    IN  /\ ~(field.isRequired /\ field.value = <<>>)
        /\ field.value # input.state["password"].value
        /\ \E i \in DOMAIN rules :
              /\ rules[i].validator = "throwsUnlessMatch"
              /\ \A j \in 1..(i - 1) : validator(rules[j].validator, field.value, input.state)

\* C33: when a validator throws in a call of getFieldValidationOutcome or of
\* applyValidation the call is left by the exception and returns nothing, no
\* isValid, no error and no next state; when none throws the call returns.
C33_ExceptionPropagates ==
    C33_Called =>
        IF C33_ValidatorThrows
        THEN output = Threw
        ELSE /\ ~output.threw
             /\ Called("getFieldValidationOutcomeCall") => output.value.isValid \in BOOLEAN
             /\ Called("applyValidationCall") => DOMAIN output.value.nextState = DOMAIN input.state

\* applyValidation was left by the exception of the second rule of
\* confirmPassword, after its first rule had passed.
C33_Witness ==
    /\ Called("applyValidationCall")
    /\ C33_ValidatorThrows
    /\ output = Threw
    /\ input.state["confirmPassword"].value = <<"a", "b">>
    /\ Len(input.params["confirmPassword"].validation) = 2
    /\ input.params["confirmPassword"].validation[2].validator = "throwsUnlessMatch"
    /\ ~Has(input.params["confirmPassword"].validation[2], "order")

\* The error of every interacted field of formState agrees with its isValid
\* and with the resolver on the current values.
C34_ErrorsAgree(formState) ==
    \A key \in Keys :
        formState[key].isInteracted =>
            /\ formState[key].error = undefined <=> formState[key].isValid
            /\ formState[key].error # undefined =>
                  formState[key].error.type = Outcome(key, formState).error.type

\* C34: whenever no timeout is pending, every interacted field has no error
\* iff it is valid, and the error it has is of the type the resolver gives
\* for the current values.
C34_NoTimerThenErrorsAgree == ~timer => C34_ErrorsAgree(nextState)

\* after differs from before in the errors of interacted fields at most.
C35_OnlyErrors(before, after) ==
    \A key \in Keys :
        /\ [after[key] EXCEPT !.error = undefined] = [before[key] EXCEPT !.error = undefined]
        /\ ~before[key].isInteracted => after[key].error = before[key].error

\* C35: the timer commit leaves value, isInteracted, isValid, label,
\* helperText and isRequired of every field as they were, and the error of
\* every field that is not interacted too, in the rendered state as in the
\* state the calls produce.
C35_Step ==
    lastOp'.name = "timer" =>
        /\ C35_OnlyErrors(nextState, nextState')
        /\ C35_OnlyErrors(state, state')

C35_CommitChangesOnlyErrors == [][C35_Step]_vars

\* The commit has replaced the error of the interacted password and kept the
\* error an earlier checkIfAllValid gave the untouched confirmPassword.
C35_Witness ==
    /\ lastOp.name = "timer"
    /\ ~nextState["confirmPassword"].isInteracted
    /\ nextState["confirmPassword"].error # undefined
    /\ nextState["password"].isInteracted
    /\ nextState["password"].error # undefined
    /\ nextState["password"].error.type = "longerThanOneChar"
    /\ state["password"].error # undefined
    /\ state["password"].error.type = "required"

\* The rank of the rule declared at the (1-based) place index: its order,
\* or the 0-based index of its declaration when it has none.
C36_Rank(declared, index) ==
    IF "order" \in DOMAIN declared[index] THEN declared[index].order ELSE index - 1

\* The place in the declaration of the rule at position p of the result
\* (the rules of a call have different names).
C36_DeclaredAt(declared, rule) == CHOOSE index \in DOMAIN declared : declared[index] = rule

\* C36: the result of getOrderedValidationEntries is a permutation of the
\* declared rules, in ascending rank, rules of equal rank in the order of
\* declaration, where a rule without order has its declaration index as
\* rank; so a rule with an order smaller than the index of an earlier rule
\* without order comes before that rule.
C36_RankedByOrderOrIndex ==
    Called("getOrderedValidationEntries") =>
        LET declared == input.validationParams
            at(p)    == C36_DeclaredAt(declared, output[p])
        IN  /\ Len(output) = Len(declared)
            /\ {output[p] : p \in DOMAIN output} = {declared[i] : i \in DOMAIN declared}
            /\ \A p, q \in DOMAIN output :
                  p < q =>
                      \/ C36_Rank(declared, at(p)) < C36_Rank(declared, at(q))
                      \/ C36_Rank(declared, at(p)) = C36_Rank(declared, at(q)) /\ at(p) < at(q)
            /\ \A i, j \in DOMAIN declared :
                  (/\ i < j
                   /\ "order" \notin DOMAIN declared[i]
                   /\ "order" \in DOMAIN declared[j]
                   /\ declared[j].order < i - 1) =>
                      \E p, q \in DOMAIN output :
                          p < q /\ output[p] = declared[j] /\ output[q] = declared[i]

\* The third rule, with order 0, has been placed before the second rule,
\* which has no order, and after the first, which has none either.
C36_Witness ==
    /\ Called("getOrderedValidationEntries")
    /\ Len(input.validationParams) = 3
    /\ \A i \in {1, 2} : "order" \notin DOMAIN input.validationParams[i]
    /\ "order" \in DOMAIN input.validationParams[3]
    /\ input.validationParams[3].order = 0
    /\ output = <<input.validationParams[1], input.validationParams[3], input.validationParams[2]>>

====
